---- MODULE Spec2Model ----
(***************************************************************************)
(* A model of @substrate-system/keyframe: hex codec, SHA-256 / Ed25519     *)
(* wrappers, file signatures and the hash-linked revision chain.           *)
(*                                                                         *)
(* Representation.  A byte is a number 0..255 and a byte array a sequence  *)
(* of bytes.  A JavaScript string that holds hex text is a sequence of     *)
(* character codes: 0..15 stand for the characters '0'..'9','a'..'f' and   *)
(* NonHex for a character that is no hex digit (such as 'g').  Content     *)
(* strings are sequences of Unicode scalar values.  null is <<>> and a     *)
(* non-null string s in a nullable field is <<s>>.                         *)
(*                                                                         *)
(* SHA-256 and Ed25519 are the platform's (crypto.subtle); they are        *)
(* modelled as ideal primitives: the digest is an injective fixed-length   *)
(* function of the bytes hashed, and a signature verifies exactly for the  *)
(* message and key it was made with.                                       *)
(***************************************************************************)
EXTENDS Integers, Sequences, FiniteSets, TLC

(* ------------------------------ bounds -------------------------------- *)

\* longest ArrayBuffer handed to the file operations
MaxBufLen == 2
\* most revisions a chain grows to
MaxRevisions == 4
\* number of keypairs generateKeypair has produced
NumKeys == 2
\* length of a raw Ed25519 public key in bytes (scaled down from 32)
KeyBytes == 2

(* --------------------------- platform model --------------------------- *)

NonHex == 15 + 1
Null == <<>>
Some(s) == <<s>>

KeyIds == 1..NumKeys

PubLen == KeyBytes
HashLen == MaxBufLen + 1

RECURSIVE Flatten(_)
Flatten(ss) == IF ss = <<>> THEN <<>> ELSE Head(ss) \o Flatten(Tail(ss))

\* TextEncoder.encode for strings of scalar values below U+0800
UTF8Char(cp) ==
    IF cp < 128 THEN <<cp>>
    ELSE <<192 + (cp \div 64), 128 + (cp % 64)>>

TextEncode(content) == Flatten([i \in 1..Len(content) |-> UTF8Char(content[i])])

\* crypto.subtle.digest('SHA-256', data): HashLen bytes, injective on the
\* byte strings of at most MaxBufLen bytes
SHA256(data) ==
    [i \in 1..HashLen |->
        IF i = 1 THEN Len(data)
        ELSE IF i - 1 <= Len(data) THEN data[i - 1] ELSE 0]

\* exportKey('raw', publicKey) of the k-th generated keypair
PublicKeyOf(k) == [i \in 1..PubLen |-> k]

\* crypto.subtle.sign('Ed25519', key k, msg)
Ed25519Sign(k, msg) == <<k>> \o msg

\* crypto.subtle.verify('Ed25519', key, sig, msg) for an imported raw key
Ed25519Verify(pub, sig, msg) ==
    \E k \in KeyIds : pub = PublicKeyOf(k) /\ sig = Ed25519Sign(k, msg)

(* ------------------------------- util --------------------------------- *)

bufferToHex(buffer) ==
    Flatten([i \in 1..Len(buffer) |-> <<buffer[i] \div 16, buffer[i] % 16>>])

\* parseInt(two characters, 16) stored into a Uint8Array element: NaN is
\* stored as 0, and parsing stops at the first character that is no digit
ParseByte(c1, c2) ==
    IF c1 = NonHex THEN 0
    ELSE IF c2 = NonHex THEN c1
    ELSE 16 * c1 + c2

\* new Uint8Array(hex.length / 2) truncates a fractional length, and the
\* write past the end made for the odd last character is dropped
hexToBuffer(hex) ==
    [i \in 1..(Len(hex) \div 2) |-> ParseByte(hex[2 * i - 1], hex[2 * i])]

(* ------------------------------ crypto -------------------------------- *)

hashContent(content) == SHA256(TextEncode(content))

signHash(hash, k) == bufferToHex(Ed25519Sign(k, hash))

Threw == [threw |-> TRUE, value |-> FALSE]
Returned(v) == [threw |-> FALSE, value |-> v]

\* importKey('raw', ...) rejects key data that is not PubLen bytes long
verifySignature(hash, signature, publicKey) ==
    IF Len(publicKey) # PubLen THEN Threw
    ELSE Returned(Ed25519Verify(publicKey, hexToBuffer(signature), hexToBuffer(hash)))

(* ------------------------------- TSA ---------------------------------- *)

\* bufferToBase64: btoa of the bytes; a character is its 6-bit value, and
\* 64 is the padding character '='
bufferToBase64(buffer) ==
    LET n == Len(buffer)
        byte(i) == IF i <= n THEN buffer[i] ELSE 0
        group(g) ==
            LET b1 == byte(3 * g - 2)
                b2 == byte(3 * g - 1)
                b3 == byte(3 * g)
            IN  <<b1 \div 4,
                  (b1 % 4) * 16 + (b2 \div 16),
                  IF 3 * g - 1 > n THEN 64 ELSE (b2 % 16) * 4 + (b3 \div 64),
                  IF 3 * g > n THEN 64 ELSE b3 % 64>>
    IN  Flatten([g \in 1..((n + 2) \div 3) |-> group(g)])

\* ASN1.Any(tag, ...parts): the tag, the length of the content in bytes
\* (one length byte below 128, 0x81 and one byte from there on) and the
\* content, all as hex text
ASN1Any(tag, parts) ==
    LET content == Flatten(parts)
        len == Len(content) \div 2
    IN  tag
        \o (IF len < 128 THEN <<len \div 16, len % 16>>
            ELSE <<8, 1, (len \div 16) % 16, len % 16>>)
        \o content

\* ASN1.UInt(hex): an INTEGER; '00' is put in front when the first byte
\* has its high bit set
ASN1UInt(hex) ==
    ASN1Any(<<0, 2>>, <<IF hex[1] >= 8 /\ hex[1] # NonHex THEN <<0, 0>> \o hex
                        ELSE hex>>)

\* number of random bytes the nonce is made of
NonceLen == 8

\* values crypto.getRandomValues may give
Nonces == {[i \in 1..NonceLen |-> b] : b \in {0, 127, 128, 255}}
          \cup {[i \in 1..NonceLen |-> i]}

\* the oids table, and the text of the three OIDs
OidSha256 == <<6, 0, 8, 6, 4, 8, 0, 1, 6, 5, 0, 3, 0, 4, 0, 2, 0, 1>>
OidSha384 == <<6, 0, 8, 6, 4, 8, 0, 1, 6, 5, 0, 3, 0, 4, 0, 2, 0, 2>>
OidSha512 == <<6, 0, 8, 6, 4, 8, 0, 1, 6, 5, 0, 3, 0, 4, 0, 2, 0, 3>>

oids == [sha256 |-> OidSha256, sha384 |-> OidSha384, sha512 |-> OidSha512]

\* oids is an object literal, so oids[name] also finds what Object.prototype
\* has under that name: a function, which is truthy.  Joined into the hex
\* text by ASN1.Any it reads 'functiontostring(){[nativecode]}' and
\* 'functionvalueof(){[nativecode]}'.
InheritedText ==
    [toString |-> <<15, NonHex, NonHex, 12, NonHex, NonHex, NonHex, NonHex,
                    NonHex, NonHex, NonHex, NonHex, NonHex, NonHex, NonHex,
                    NonHex, NonHex, NonHex, NonHex, NonHex, NonHex, 10, NonHex,
                    NonHex, NonHex, 14, 12, NonHex, 13, 14, NonHex, NonHex>>,
     valueOf |-> <<15, NonHex, NonHex, 12, NonHex, NonHex, NonHex, NonHex,
                   NonHex, 10, NonHex, NonHex, 14, NonHex, 15, NonHex, NonHex,
                   NonHex, NonHex, NonHex, 10, NonHex, NonHex, NonHex, 14, 12,
                   NonHex, 13, 14, NonHex, NonHex>>]

\* hashAlgorithm values a TSAConfig may carry: absent, empty, the three
\* supported names, other names
HashAlgorithms ==
    {Null, Some(""), Some("sha256"), Some("sha384"), Some("sha512"),
     Some("md5"), Some("SHA256"), Some("toString"), Some("valueOf")}

PolicyOIDs == {Null, Some("1.2.3.4")}

TSAConfigs ==
    {[url |-> "http://mock-tsa/timestamp", hashAlgorithm |-> h, policyOID |-> p] :
        h \in HashAlgorithms, p \in PolicyOIDs}

DefaultConfig ==
    [url |-> "http://mock-tsa/timestamp", hashAlgorithm |-> Null, policyOID |-> Null]

\* lines 290-300: config.hashAlgorithm || 'sha256', oids[hashAlg] || oids.sha256
OidOf(config) ==
    LET hashAlg == IF config.hashAlgorithm \in {Null, Some("")} THEN "sha256"
                   ELSE config.hashAlgorithm[1]
    IN  IF hashAlg \in DOMAIN oids THEN oids[hashAlg]
        ELSE IF hashAlg \in DOMAIN InheritedText THEN InheritedText[hashAlg]
        ELSE oids.sha256

\* variant: the request carries config.policyOID as reqPolicy
createTimeStampRequestWithPolicy(hash, config, nonce) ==
    LET hashBytes == hexToBuffer(hash)
        oid == OidOf(config)
        messageImprint ==
            ASN1Any(<<3, 0>>,
                <<ASN1Any(<<3, 0>>, <<ASN1Any(<<0, 6>>, <<oid>>),
                                      ASN1Any(<<0, 5>>, <<>>)>>),
                  ASN1Any(<<0, 4>>, <<bufferToHex(hashBytes)>>)>>)
        request ==
            ASN1Any(<<3, 0>>,
                <<ASN1UInt(<<0, 1>>),
                  messageImprint>>
                \o (IF config.policyOID = Null THEN <<>>
                    ELSE <<ASN1Any(<<0, 6>>, <<<<2, 10, 0, 3, 0, 4>>>>)>>)
                \o <<ASN1UInt(bufferToHex(nonce)),
                     ASN1Any(<<0, 1>>, <<<<0, 1>>>>)>>)
    IN  IF Len(oid) % 2 = 1 THEN Threw ELSE Returned(hexToBuffer(request))

\* createTimeStampRequest; ASN1.Any throws when its content is an odd
\* number of hex characters
createTimeStampRequest(hash, config, nonce) ==
    LET hashBytes == hexToBuffer(hash)
        oid == OidOf(config)
        messageImprint ==
            ASN1Any(<<3, 0>>,
                <<ASN1Any(<<3, 0>>, <<ASN1Any(<<0, 6>>, <<oid>>),
                                      ASN1Any(<<0, 5>>, <<>>)>>),
                  ASN1Any(<<0, 4>>, <<bufferToHex(hashBytes)>>)>>)
        request ==
            ASN1Any(<<3, 0>>,
                <<ASN1UInt(<<0, 1>>),
                  messageImprint,
                  ASN1UInt(bufferToHex(nonce)),
                  ASN1Any(<<0, 1>>, <<<<0, 1>>>>)>>)
    IN  IF Len(oid) % 2 = 1 THEN Threw ELSE Returned(hexToBuffer(request))

\* ASN1.parse({ der, verbose: true }): the node of a DER encoding, with
\* children for a constructed tag (bit 0x20) and a value otherwise; it
\* throws on bytes that are no single well-formed encoding.  Lengths are
\* below 128 throughout the model.
Constructed(type) == (type \div 32) % 2 = 1

Malformed == [ok |-> FALSE]

RECURSIVE DERNode(_)
RECURSIVE DERChildren(_)
DERNode(der) ==
    IF Len(der) < 2 THEN Malformed
    ELSE IF der[2] >= 128 \/ Len(der) # 2 + der[2] THEN Malformed
    ELSE IF Constructed(der[1])
         THEN LET kids == DERChildren(SubSeq(der, 3, Len(der)))
              IN  IF kids.ok
                  THEN [ok |-> TRUE,
                        node |-> [type |-> der[1], children |-> Some(kids.nodes),
                                  value |-> Null]]
                  ELSE Malformed
         ELSE [ok |-> TRUE,
               node |-> [type |-> der[1], children |-> Null,
                         value |-> Some(SubSeq(der, 3, Len(der)))]]

DERChildren(der) ==
    IF der = <<>> THEN [ok |-> TRUE, nodes |-> <<>>]
    ELSE IF Len(der) < 2 THEN Malformed
    ELSE IF der[2] >= 128 \/ 2 + der[2] > Len(der) THEN Malformed
    ELSE LET first == DERNode(SubSeq(der, 1, 2 + der[2]))
             others == DERChildren(SubSeq(der, 3 + der[2], Len(der)))
         IN  IF first.ok /\ others.ok
             THEN [ok |-> TRUE, nodes |-> <<first.node>> \o others.nodes]
             ELSE Malformed

ASN1Parse(der) ==
    IF DERNode(der).ok THEN Returned(DERNode(der).node) ELSE Threw

\* node.children?.[i] (i counted from 0): undefined is Null, a node is
\* Some(node)
Child(node, i) ==
    IF node = Null THEN Null
    ELSE IF node[1].children = Null THEN Null
    ELSE IF i + 1 > Len(node[1].children[1]) THEN Null
    ELSE Some(node[1].children[1][i + 1])

HasChildren(node) == node # Null /\ node[1].children # Null
HasValue(node) == node # Null /\ node[1].value # Null

\* a Date: an instant of the UTC calendar, or the invalid date
InvalidDate == [valid |-> FALSE]

IsDigit(c) == c \in 48..57

RECURSIVE Decimal(_)
Decimal(digits) ==
    IF digits = <<>> THEN 0
    ELSE 10 * Decimal(SubSeq(digits, 1, Len(digits) - 1)) + (digits[Len(digits)] - 48)

\* timeStr.match(/^(\d{4})(\d{2})(\d{2})(\d{2})(\d{2})(\d{2})(?:\.(\d+))?Z$/)
GeneralizedTimeMatch(timeStr) ==
    LET n == Len(timeStr)
    IN  /\ n >= 15
        /\ \A i \in 1..14 : IsDigit(timeStr[i])
        /\ timeStr[n] = 90
        /\ \/ n = 15
           \/ /\ n >= 17
              /\ timeStr[15] = 46
              /\ \A i \in 16..(n - 1) : IsDigit(timeStr[i])

\* variant: the hour is read one off, as a local time would be
DateOfHourShifted(timeStr) ==
    LET field(i, j) == Decimal(SubSeq(timeStr, i, j))
        n == Len(timeStr)
        fraction == IF n = 15 THEN <<>> ELSE SubSeq(timeStr, 16, n - 1)
        milli(k) == IF k <= Len(fraction) THEN fraction[k] - 48 ELSE 0
    IN  IF /\ field(5, 6) \in 1..12
           /\ field(7, 8) \in 1..31
           /\ field(9, 10) \in 0..23
           /\ field(11, 12) \in 0..59
           /\ field(13, 14) \in 0..59
        THEN [valid |-> TRUE, year |-> field(1, 4), month |-> field(5, 6),
              day |-> field(7, 8), hour |-> (field(9, 10) + 1) % 24,
              minute |-> field(11, 12), second |-> field(13, 14),
              ms |-> 100 * milli(1) + 10 * milli(2) + milli(3)]
        ELSE InvalidDate

\* new Date(isoString) for the string built from the groups of the match;
\* out-of-range fields give the invalid date, and the fraction counts to
\* the millisecond
DateOf(timeStr) ==
    LET field(i, j) == Decimal(SubSeq(timeStr, i, j))
        n == Len(timeStr)
        fraction == IF n = 15 THEN <<>> ELSE SubSeq(timeStr, 16, n - 1)
        milli(k) == IF k <= Len(fraction) THEN fraction[k] - 48 ELSE 0
    IN  IF /\ field(5, 6) \in 1..12
           /\ field(7, 8) \in 1..31
           /\ field(9, 10) \in 0..23
           /\ field(11, 12) \in 0..59
           /\ field(13, 14) \in 0..59
        THEN [valid |-> TRUE, year |-> field(1, 4), month |-> field(5, 6),
              day |-> field(7, 8), hour |-> field(9, 10),
              minute |-> field(11, 12), second |-> field(13, 14),
              ms |-> 100 * milli(1) + 10 * milli(2) + milli(3)]
        ELSE InvalidDate

\* date.toISOString(): a RangeError for the invalid date
toISOString(date) == IF date.valid THEN Returned(date) ELSE Threw

\* parseTimestampToken: the traversal resp[1] -> [1][0] -> [2] -> [1][0],
\* the second parse, tstInfo[4], the match and the Date; every throw is
\* caught, logged and thrown again.  TextDecoder gives the characters of
\* the (ASCII) bytes.
parseTimestampToken(token) ==
    LET resp == ASN1Parse(token)
    IN  IF resp.threw THEN Threw
        ELSE
        LET timeStampToken == Child(Some(resp.value), 1)
            signedData == Child(Child(timeStampToken, 1), 0)
            encapContentInfo == Child(signedData, 2)
            eContent == Child(Child(encapContentInfo, 1), 0)
        IN  IF ~HasChildren(Some(resp.value)) THEN Threw
            ELSE IF ~HasChildren(timeStampToken) THEN Threw
            ELSE IF ~HasChildren(signedData) THEN Threw
            ELSE IF ~HasChildren(encapContentInfo) THEN Threw
            ELSE IF ~HasValue(eContent) THEN Threw
            ELSE
            LET tstInfoParsed == ASN1Parse(eContent[1].value[1])
            IN  IF tstInfoParsed.threw THEN Threw
                ELSE IF ~HasChildren(Some(tstInfoParsed.value)) THEN Threw
                ELSE
                LET genTime == Child(Some(tstInfoParsed.value), 4)
                IN  IF ~HasValue(genTime) THEN Threw
                    ELSE IF ~GeneralizedTimeMatch(genTime[1].value[1]) THEN Threw
                    ELSE Returned(DateOf(genTime[1].value[1]))

\* What the TSA sends: nodes and their DER encoding
Cons(type, kids) == [type |-> type, children |-> Some(kids), value |-> Null]
Prim(type, bytes) == [type |-> type, children |-> Null, value |-> Some(bytes)]

RECURSIVE DER(_)
DER(node) ==
    LET content == IF node.children = Null THEN node.value[1]
                   ELSE Flatten([i \in 1..Len(node.children[1]) |->
                                    DER(node.children[1][i])])
    IN  <<node.type, Len(content)>> \o content

\* TSTInfo: version, policy, messageImprint, serialNumber and a fifth
\* field of the given tag holding the time text, then the nonce
TSTInfo(hashBytes, nonce, timeTag, timeStr) ==
    Cons(48, <<Prim(2, <<1>>),
               Prim(6, <<42, 3, 4>>),
               Cons(48, <<Cons(48, <<Prim(6, hexToBuffer(OidSha256)), Prim(5, <<>>)>>),
                          Prim(4, hashBytes)>>),
               Prim(2, <<1>>),
               Prim(timeTag, timeStr),
               Prim(2, nonce)>>)

SignedData(tstInfo) ==
    Cons(48, <<Prim(2, <<3>>),
               Cons(49, <<>>),
               Cons(48, <<Prim(6, <<42, 1, 4>>),
                          Cons(160, <<Prim(4, DER(tstInfo))>>)>>)>>)

\* TimeStampResp with status granted and a timeStampToken
TimeStampResp(tstInfo) ==
    Cons(48, <<Cons(48, <<Prim(2, <<0>>)>>),
               Cons(48, <<Prim(6, <<42, 7, 2>>),
                          Cons(160, <<SignedData(tstInfo)>>)>>)>>)

\* "20240101120000Z"
GenTime2024 == <<50, 48, 50, 52, 48, 49, 48, 49, 49, 50, 48, 48, 48, 48, 90>>

GoodTSTInfo == TSTInfo(<<1, 97, 0>>, <<1, 2, 3, 4, 5, 6, 7, 8>>, 24, GenTime2024)

GoodBody == DER(TimeStampResp(GoodTSTInfo))

\* What fetch() gives back: a transport failure (no response), a status
\* that is not 2xx, or a 2xx response; a body comes with a response
TSAResponses ==
    { [kind |-> "network", body |-> <<>>],
      [kind |-> "status", body |-> GoodBody],
      [kind |-> "ok", body |-> SubSeq(GoodBody, 1, Len(GoodBody) - 1)],
      [kind |-> "ok", body |-> GoodBody] }

NoTimestamp == [threw |-> TRUE, token |-> <<>>, timestamp |-> InvalidDate]

\* variant: the response status is not looked at
requestTimestampAnyStatus(resp) ==
    IF resp.kind = "network" THEN NoTimestamp
    ELSE IF parseTimestampToken(resp.body).threw THEN NoTimestamp
    ELSE [threw |-> FALSE, token |-> bufferToBase64(resp.body),
          timestamp |-> parseTimestampToken(resp.body).value]

\* requestTimestamp from the answer of fetch on: a rejected fetch and a
\* response that is not ok throw, then the token is the base64 of the body
\* and the timestamp what parseTimestampToken makes of it
requestTimestamp(resp) ==
    IF resp.kind # "ok" THEN NoTimestamp
    ELSE IF parseTimestampToken(resp.body).threw THEN NoTimestamp
    ELSE [threw |-> FALSE, token |-> bufferToBase64(resp.body),
          timestamp |-> parseTimestampToken(resp.body).value]

(* ------------------------------ signing ------------------------------- *)

signContent(content, k, now) ==
    [contentHash |-> bufferToHex(hashContent(content)),
     signature |-> signHash(hashContent(content), k),
     publicKey |-> bufferToHex(PublicKeyOf(k)),
     timestamp |-> now]

\* variant: the token of a canned response is stored
TimestampedCannedToken(basicSig, rt) ==
    [contentHash |-> basicSig.contentHash,
     signature |-> basicSig.signature,
     publicKey |-> basicSig.publicKey,
     timestamp |-> basicSig.timestamp,
     tsaToken |-> bufferToBase64(GoodBody),
     verifiedTimestamp |-> toISOString(rt.timestamp).value]

\* the record signContentWithTimestamp assembles once the TSA has answered
Timestamped(basicSig, rt) ==
    [contentHash |-> basicSig.contentHash,
     signature |-> basicSig.signature,
     publicKey |-> basicSig.publicKey,
     timestamp |-> basicSig.timestamp,
     tsaToken |-> rt.token,
     verifiedTimestamp |-> toISOString(rt.timestamp).value]

\* signContentWithTimestamp rejects when requestTimestamp does, and when
\* timestamp.toISOString() throws
TimestampFails(rt) == rt.threw \/ toISOString(rt.timestamp).threw

createC2PAManifest(content, signature) ==
    [hash |-> signature.contentHash,
     when |-> signature.verifiedTimestamp,
     publicKey |-> signature.publicKey,
     value |-> signature.signature]

(* --------------------------- revision chain --------------------------- *)

Contents == {<<97>>, <<233>>}

EmptyChain == [content |-> <<>>, revisions |-> <<>>, c2paManifest |-> Null]

NoSig == [contentHash |-> <<>>, signature |-> <<>>, publicKey |-> <<>>,
          timestamp |-> 0]

Last(s) == s[Len(s)]

\* variant: a revision without a TSA token counts as a hash error
HashErrorNeedsToken(rev, i) ==
    IF \/ bufferToHex(hashContent(rev.content)) # rev.signature.contentHash
       \/ rev.signature.tsaToken = <<>>
    THEN <<[index |-> i, kind |-> "hash"]>> ELSE <<>>

\* verifyChain: the loop over the revisions; each failed check appends its
\* error.  A rejected verifySignature rejects the whole call.
HashError(rev, i) ==
    IF bufferToHex(hashContent(rev.content)) # rev.signature.contentHash
    THEN <<[index |-> i, kind |-> "hash"]>> ELSE <<>>

\* variant: the signature is checked under the key the revision carries
SignatureErrorEmbeddedKey(rev, i, publicKey) ==
    IF ~verifySignature(rev.signature.contentHash, rev.signature.signature,
                        hexToBuffer(rev.signature.publicKey)).value
    THEN <<[index |-> i, kind |-> "signature"]>> ELSE <<>>

SignatureError(rev, i, publicKey) ==
    IF ~verifySignature(rev.signature.contentHash, rev.signature.signature,
                        publicKey).value
    THEN <<[index |-> i, kind |-> "signature"]>> ELSE <<>>

\* variant: the link is compared with the recomputed hash of the
\* predecessor's content instead of its stored contentHash
LinkageErrorRehash(revisions, i) ==
    IF i > 0
    THEN IF revisions[i + 1].previousHash
            # Some(bufferToHex(hashContent(revisions[i].content)))
         THEN <<[index |-> i, kind |-> "linkage"]>> ELSE <<>>
    ELSE IF revisions[i + 1].previousHash # Null
         THEN <<[index |-> i, kind |-> "first"]>> ELSE <<>>

LinkageError(revisions, i) ==
    IF i > 0
    THEN IF revisions[i + 1].previousHash
            # Some(revisions[i].signature.contentHash)
         THEN <<[index |-> i, kind |-> "linkage"]>> ELSE <<>>
    ELSE IF revisions[i + 1].previousHash # Null
         THEN <<[index |-> i, kind |-> "first"]>> ELSE <<>>

\* variant: the loop stops at the first revision that has an error
RECURSIVE ChainErrorsShort(_, _, _)
ChainErrorsShort(revisions, i, publicKey) ==
    IF i >= Len(revisions) THEN <<>>
    ELSE LET here == HashError(revisions[i + 1], i)
                     \o SignatureError(revisions[i + 1], i, publicKey)
                     \o LinkageError(revisions, i)
         IN  IF here # <<>> THEN here
             ELSE ChainErrorsShort(revisions, i + 1, publicKey)

\* the errors pushed by iterations i, i+1, ... (indices as in the code,
\* from 0; revisions[i + 1] is the code's revisions[i])
RECURSIVE ChainErrors(_, _, _)
ChainErrors(revisions, i, publicKey) ==
    IF i >= Len(revisions) THEN <<>>
    ELSE HashError(revisions[i + 1], i)
         \o SignatureError(revisions[i + 1], i, publicKey)
         \o LinkageError(revisions, i)
         \o ChainErrors(revisions, i + 1, publicKey)

\* variant: a chain without revisions is reported as an error
verifyChainNonEmpty(signedContent, publicKey) ==
    IF Len(signedContent.revisions) > 0 /\ Len(publicKey) # PubLen
    THEN [threw |-> TRUE, valid |-> FALSE, errors |-> <<>>]
    ELSE IF signedContent.revisions = <<>>
    THEN [threw |-> FALSE, valid |-> FALSE,
          errors |-> <<[index |-> 0, kind |-> "first"]>>]
    ELSE [threw |-> FALSE,
          valid |-> ChainErrors(signedContent.revisions, 0, publicKey) = <<>>,
          errors |-> ChainErrors(signedContent.revisions, 0, publicKey)]

verifyChain(signedContent, publicKey) ==
    IF Len(signedContent.revisions) > 0 /\ Len(publicKey) # PubLen
    THEN [threw |-> TRUE, valid |-> FALSE, errors |-> <<>>]
    ELSE [threw |-> FALSE,
          valid |-> ChainErrors(signedContent.revisions, 0, publicKey) = <<>>,
          errors |-> ChainErrors(signedContent.revisions, 0, publicKey)]

(* ------------------------------ state --------------------------------- *)

VARIABLES
    keypair,    \* the caller's keypair (the k-th generated one)
    clock,      \* the reading new Date() gives next
    base,       \* the chain object the caller holds
    calls,      \* the createSignedContent / addRevision calls in flight
    stored,     \* a chain as it comes back from storage, and what was done to it
    verdict,    \* what the last verification call settled with
    file,       \* the file-signature scenario
    wire,       \* a record as serialized JSON text, and what is parsed back
    jpeg,       \* the JPEG / EXIF scenario
    tsa         \* one signContentWithTimestamp call and its TSA exchange

vars == <<keypair, clock, base, calls, stored, verdict, file, wire, jpeg, tsa>>

MaxClock == MaxRevisions
CallIds == {1, 2}

IdleCall ==
    [pc |-> "idle", op |-> "none", content |-> <<>>, key |-> 0,
     basicSig |-> NoSig, previousHash |-> Null, shared |-> FALSE,
     input |-> EmptyChain, result |-> EmptyChain,
     sent |-> 0, response |-> "none"]

NoStored == [chain |-> EmptyChain, from |-> EmptyChain, faults |-> <<>>]
NoArg == [buffer |-> <<>>, byteOffset |-> 0, length |-> 0]
NoVerdict == [op |-> "none", publicKey |-> <<>>, arg |-> NoArg, threw |-> FALSE,
              valid |-> FALSE, errors |-> <<>>]
NoFile == [stage |-> "none"]
NoWire == [stage |-> "none"]
NoJpeg == [stage |-> "none"]
NoTsa == [pc |-> "idle"]

Tick(t) == IF t < MaxClock THEN t + 1 ELSE t

\* variant: a call that resumes looks the chain up in the caller's variable
InputOfCurrent(c) == base

\* the chain object a call was given, as it is now
InputOf(c) == IF c.shared THEN base ELSE c.input

(* ------------------------ createSignedContent ------------------------- *)

\* lines 762: hash and sign, build the request and send it, then suspend
\* until fetch settles
CreateStart(id, content) ==
    /\ calls[id].pc = "idle"
    /\ base = EmptyChain
    /\ calls' = [calls EXCEPT ![id] =
                    [IdleCall EXCEPT !.pc = "tsa", !.op = "create",
                                     !.content = content, !.key = keypair,
                                     !.basicSig = signContent(content, keypair, clock),
                                     !.sent = 1]]
    /\ clock' = Tick(clock)
    /\ UNCHANGED <<keypair, base, stored, verdict, file, wire, jpeg, tsa>>

(* ----------------------------- addRevision ---------------------------- *)

\* variant: the link is taken from chain.content instead of the last revision
PreviousHashOfContent(signedContent) ==
    Some(bufferToHex(hashContent(signedContent.content)))

\* lines 787-788: the contentHash of the last element of the revisions
PreviousHashOf(signedContent) ==
    Some(Last(signedContent.revisions).signature.contentHash)

\* lines 787-791: read the last revision and its contentHash (a TypeError
\* when there is none), hash and sign, build the request and send it, then
\* suspend until fetch settles
AddStart(id, newContent) ==
    /\ calls[id].pc = "idle"
    /\ Len(base.revisions) < MaxRevisions
    /\ IF base.revisions = <<>>
       THEN /\ calls' = [calls EXCEPT ![id] =
                    [IdleCall EXCEPT !.pc = "failed", !.op = "add",
                                     !.content = newContent, !.key = keypair,
                                     !.shared = TRUE]]
            /\ clock' = clock
       ELSE /\ calls' = [calls EXCEPT ![id] =
                    [IdleCall EXCEPT !.pc = "tsa", !.op = "add",
                                     !.content = newContent, !.key = keypair,
                                     !.previousHash = PreviousHashOf(base),
                                     !.basicSig = signContent(newContent, keypair, clock),
                                     !.shared = TRUE, !.sent = 1]]
            /\ clock' = Tick(clock)
    /\ UNCHANGED <<keypair, base, stored, verdict, file, wire, jpeg, tsa>>

\* variant: the new revision is not linked to its predecessor
NewRevisionUnlinked(c, rt) ==
    [content |-> c.content,
     signature |-> Timestamped(c.basicSig, rt),
     previousHash |-> Null]

\* lines 793-803 (and 765-775): the revision and the chain a call returns
\* once signContentWithTimestamp has resolved, and the input object as the
\* call leaves it; the revisions are spread into a new array
NewRevision(c, rt) ==
    [content |-> c.content,
     signature |-> Timestamped(c.basicSig, rt),
     previousHash |-> c.previousHash]

\* variant: the chain's content is carried over from the input chain
ReturnedContentOfInput(c, input) == input.content

\* lines 772 and 800: the content field of the returned chain
ReturnedContent(c, input) == c.content

\* variant: the revision is pushed onto the input's own revisions array
ResolvePush(c, input, rt) ==
    [input |-> IF c.op = "create" THEN input
               ELSE [input EXCEPT !.revisions = Append(@, NewRevision(c, rt))],
     result |->
        [content |-> ReturnedContent(c, input),
         revisions |-> IF c.op = "create" THEN <<NewRevision(c, rt)>>
                       ELSE input.revisions \o <<NewRevision(c, rt)>>,
         c2paManifest |->
            Some(createC2PAManifest(c.content, Timestamped(c.basicSig, rt)))]]

Resolve(c, input, rt) ==
    [input |-> input,
     result |->
        [content |-> ReturnedContent(c, input),
         revisions |-> IF c.op = "create" THEN <<NewRevision(c, rt)>>
                       ELSE input.revisions \o <<NewRevision(c, rt)>>,
         c2paManifest |->
            Some(createC2PAManifest(c.content, Timestamped(c.basicSig, rt)))]]

\* variant: a request that failed is sent once more before the call rejects
TSAReplyRetry(id, resp) ==
    /\ calls[id].pc = "tsa"
    /\ LET rt == requestTimestamp(resp)
           c == calls[id]
           out == Resolve(c, InputOf(c), rt)
       IN  IF TimestampFails(rt)
           THEN /\ calls' = [calls EXCEPT ![id] =
                        IF c.sent < 2 THEN [c EXCEPT !.sent = @ + 1]
                        ELSE [c EXCEPT !.pc = "failed", !.input = InputOf(c),
                                       !.response = resp.kind]]
                /\ base' = base
           ELSE /\ calls' = [j \in CallIds |->
                        IF j = id
                        THEN [c EXCEPT !.pc = "done", !.input = out.input,
                                       !.result = out.result,
                                       !.response = resp.kind]
                        ELSE calls[j]]
                /\ base' = IF c.shared /\ c.op = "add" THEN out.input ELSE base
    /\ UNCHANGED <<keypair, clock, stored, verdict, file, wire, jpeg, tsa>>

\* the TSA's answer arrives: requestTimestamp returns or throws, and the
\* call resolves with the new chain or rejects
TSAReply(id, resp) ==
    /\ calls[id].pc = "tsa"
    /\ LET rt == requestTimestamp(resp)
           c == calls[id]
           out == Resolve(c, InputOf(c), rt)
       IN  IF TimestampFails(rt)
           THEN /\ calls' = [calls EXCEPT ![id] =
                        [c EXCEPT !.pc = "failed", !.input = InputOf(c),
                                  !.response = resp.kind]]
                /\ base' = base
           ELSE /\ calls' = [j \in CallIds |->
                        IF j = id
                        THEN [c EXCEPT !.pc = "done", !.input = out.input,
                                       !.result = out.result,
                                       !.response = resp.kind]
                        ELSE calls[j]]
                /\ base' = IF c.shared /\ c.op = "add" THEN out.input ELSE base
    /\ UNCHANGED <<keypair, clock, stored, verdict, file, wire, jpeg, tsa>>

\* the caller keeps the chain a call returned; the object it held before
\* stays with the calls still working on it
Keep(id) ==
    /\ calls[id].pc = "done"
    /\ base' = calls[id].result
    /\ calls' = [j \in CallIds |->
                    IF j = id THEN IdleCall
                    ELSE [calls[j] EXCEPT !.shared = FALSE, !.input = InputOf(calls[j])]]
    /\ UNCHANGED <<keypair, clock, stored, verdict, file, wire, jpeg, tsa>>

\* the caller sees a call fail
Catch(id) ==
    /\ calls[id].pc = "failed"
    /\ calls' = [calls EXCEPT ![id] = IdleCall]
    /\ UNCHANGED <<keypair, clock, base, stored, verdict, file, wire, jpeg, tsa>>

\* the caller takes the last element off chain.revisions while a call that
\* was given the chain waits for the TSA
PopRevision ==
    /\ base.revisions # <<>>
    /\ \E id \in CallIds :
        calls[id].pc = "tsa" /\ calls[id].op = "add" /\ calls[id].shared
    /\ base' = [base EXCEPT !.revisions = SubSeq(@, 1, Len(@) - 1)]
    /\ UNCHANGED <<keypair, clock, calls, stored, verdict, file, wire, jpeg, tsa>>

\* the caller changes chain.content out of band
SetContent(content) ==
    /\ base # EmptyChain
    /\ base.content # content
    /\ \A id \in CallIds : calls[id].pc = "idle"
    /\ base' = [base EXCEPT !.content = content]
    /\ UNCHANGED <<keypair, clock, calls, stored, verdict, file, wire, jpeg, tsa>>

(* --------------------- storage, faults, verification ------------------ *)

\* the chain is put away (serialized, published) once the calls are over
Store ==
    /\ stored = NoStored
    /\ base.revisions # <<>>
    /\ \A id \in CallIds : calls[id].pc = "idle"
    /\ stored' = [chain |-> base, from |-> base, faults |-> <<>>]
    /\ UNCHANGED <<keypair, clock, base, calls, verdict, file, wire, jpeg, tsa>>

HashHexes == {bufferToHex(hashContent(c)) : c \in Contents}

\* values a stored field may be changed to
FieldValues(rev, kind) ==
    CASE kind = "content" -> Contents
      [] kind = "contentHash" -> HashHexes
      [] kind = "signature" ->
            {signHash(hexToBuffer(rev.signature.contentHash), k) : k \in KeyIds}
            \cup {SubSeq(rev.signature.signature, 1, Len(rev.signature.signature) - 1),
                  [rev.signature.signature EXCEPT ![1] = NonHex]}
      [] kind = "previousHash" -> {Null} \cup {Some(h) : h \in HashHexes}

FieldOf(rev, kind) ==
    CASE kind = "content" -> rev.content
      [] kind = "contentHash" -> rev.signature.contentHash
      [] kind = "signature" -> rev.signature.signature
      [] kind = "previousHash" -> rev.previousHash

SetField(rev, kind, v) ==
    CASE kind = "content" -> [rev EXCEPT !.content = v]
      [] kind = "contentHash" -> [rev EXCEPT !.signature.contentHash = v]
      [] kind = "signature" -> [rev EXCEPT !.signature.signature = v]
      [] kind = "previousHash" -> [rev EXCEPT !.previousHash = v]

FaultKinds == {"content", "contentHash", "signature", "previousHash"}

\* one field of revisions[i] is changed in storage; a second fault is made
\* at a later revision
Corrupt ==
    /\ stored # NoStored
    /\ verdict = NoVerdict
    /\ \/ stored.faults = <<>>
       \/ Len(stored.faults) = 1 /\ stored.faults[1].kind \in FaultKinds
    /\ \E i \in 0..(Len(stored.chain.revisions) - 1), kind \in FaultKinds :
        /\ stored.faults # <<>> => stored.faults[1].index < i
        /\ \E v \in FieldValues(stored.chain.revisions[i + 1], kind) :
            /\ v # FieldOf(stored.chain.revisions[i + 1], kind)
            /\ stored' = [stored EXCEPT
                            !.chain.revisions[i + 1] = SetField(@, kind, v),
                            !.faults = Append(@, [kind |-> kind, index |-> i])]
    /\ UNCHANGED <<keypair, clock, base, calls, verdict, file, wire, jpeg, tsa>>

Orders(n) ==
    {p \in [1..n -> 1..n] : \A i, j \in 1..n : p[i] = p[j] => i = j}

\* the stored revisions are put in another order
Reorder ==
    /\ stored # NoStored
    /\ verdict = NoVerdict
    /\ stored.faults = <<>>
    /\ \E p \in Orders(Len(stored.chain.revisions)) :
        /\ \E i \in DOMAIN p : p[i] # i
        /\ stored' = [stored EXCEPT
                        !.chain.revisions = [i \in DOMAIN p |-> stored.chain.revisions[p[i]]],
                        !.faults = <<[kind |-> "order", index |-> 0]>>]
    /\ UNCHANGED <<keypair, clock, base, calls, verdict, file, wire, jpeg, tsa>>

\* the caller signs the next revision with another keypair
UseKeypair(k) ==
    /\ k # keypair
    /\ stored = NoStored
    /\ \A id \in CallIds : calls[id].pc = "idle"
    /\ keypair' = k
    /\ UNCHANGED <<clock, base, calls, stored, verdict, file, wire, jpeg, tsa>>

\* fields of a stored chain that verifyChain does not read, and values they
\* may be changed to
UnreadKinds == {"publicKey", "timestamp", "verifiedTimestamp", "tsaToken"}

UnreadValues(rev, kind) ==
    CASE kind = "publicKey" ->
            {bufferToHex(PublicKeyOf(k)) : k \in KeyIds}
            \cup {SubSeq(rev.signature.publicKey, 1, Len(rev.signature.publicKey) - 1)}
      [] kind = "timestamp" -> {0}
      [] kind = "verifiedTimestamp" -> {InvalidDate}
      [] kind = "tsaToken" -> {<<>>}

UnreadOf(rev, kind) ==
    CASE kind = "publicKey" -> rev.signature.publicKey
      [] kind = "timestamp" -> rev.signature.timestamp
      [] kind = "verifiedTimestamp" -> rev.signature.verifiedTimestamp
      [] kind = "tsaToken" -> rev.signature.tsaToken

SetUnread(rev, kind, v) ==
    CASE kind = "publicKey" -> [rev EXCEPT !.signature.publicKey = v]
      [] kind = "timestamp" -> [rev EXCEPT !.signature.timestamp = v]
      [] kind = "verifiedTimestamp" -> [rev EXCEPT !.signature.verifiedTimestamp = v]
      [] kind = "tsaToken" -> [rev EXCEPT !.signature.tsaToken = v]

\* one of these fields of revisions[i] is changed in storage, or the
\* chain's content or its manifest
ChangeUnread ==
    /\ stored # NoStored
    /\ verdict = NoVerdict
    /\ stored.faults = <<>>
    /\ \/ \E i \in 0..(Len(stored.chain.revisions) - 1), kind \in UnreadKinds :
            \E v \in UnreadValues(stored.chain.revisions[i + 1], kind) :
                /\ v # UnreadOf(stored.chain.revisions[i + 1], kind)
                /\ stored' = [stored EXCEPT
                                !.chain.revisions[i + 1] = SetUnread(@, kind, v),
                                !.faults = <<[kind |-> kind, index |-> i]>>]
       \/ \E c \in Contents \cup {<<>>} :
            /\ c # stored.chain.content
            /\ stored' = [stored EXCEPT
                            !.chain.content = c,
                            !.faults = <<[kind |-> "chainContent", index |-> 0]>>]
       \/ stored' = [stored EXCEPT
                        !.chain.c2paManifest = Null,
                        !.faults = <<[kind |-> "c2paManifest", index |-> 0]>>]
    /\ UNCHANGED <<keypair, clock, base, calls, verdict, file, wire, jpeg, tsa>>

\* the last revisions of the stored chain are removed, n are left
Truncate(n) ==
    /\ stored # NoStored
    /\ verdict = NoVerdict
    /\ stored.faults = <<>>
    /\ n < Len(stored.chain.revisions)
    /\ stored' = [stored EXCEPT
                    !.chain.revisions = SubSeq(@, 1, n),
                    !.faults = <<[kind |-> "truncate", index |-> n]>>]
    /\ UNCHANGED <<keypair, clock, base, calls, verdict, file, wire, jpeg, tsa>>

\* public keys a verifier may hold: a generated one, or one cut short
PublicKeyArgs ==
    {PublicKeyOf(k) : k \in KeyIds} \cup {SubSeq(PublicKeyOf(1), 1, PubLen - 1)}

VerifyChain(publicKey) ==
    /\ stored # NoStored
    /\ verdict = NoVerdict
    /\ LET r == verifyChain(stored.chain, publicKey)
       IN  verdict' = [op |-> "verifyChain", publicKey |-> publicKey, arg |-> NoArg,
                       threw |-> r.threw, valid |-> r.valid, errors |-> r.errors]
    /\ UNCHANGED <<keypair, clock, base, calls, stored, file, wire, jpeg, tsa>>

(* --------------------------- file signatures ------------------------- *)

\* A Uint8Array is a view of length bytes at byteOffset of an ArrayBuffer.
FileByteValues == {0, 1}

ArrayBuffers == UNION {[1..n -> FileByteValues] : n \in 0..MaxBufLen}

Uint8Arrays ==
    {[buffer |-> b, byteOffset |-> o, length |-> l] :
        b \in ArrayBuffers, o \in 0..MaxBufLen, l \in 0..MaxBufLen}

IsView(u) == u.byteOffset + u.length <= Len(u.buffer)

\* the bytes the array exposes
Bytes(u) == SubSeq(u.buffer, u.byteOffset + 1, u.byteOffset + u.length)

FileMetadata ==
    {Null,
     Some([author |-> "Test Author", mimeType |-> Null]),
     Some([author |-> "Test Author", mimeType |-> Some("image/jpeg")])}

MockTimestamp == [authority |-> "http://mock-tsa/timestamp", token |-> 0, verifiedAt |-> 1]

\* variant: the size is taken from the underlying buffer as well
signFileBufferSize(filename, fileBuffer, k, ts, metadata, now) ==
    [version |-> "1.0",
     file |-> [name |-> filename,
               hash |-> bufferToHex(SHA256(fileBuffer.buffer)),
               size |-> Len(fileBuffer.buffer),
               mimeType |-> IF metadata = Null THEN Null ELSE metadata[1].mimeType],
     signature |-> [algorithm |-> "Ed25519",
                    publicKey |-> bufferToHex(PublicKeyOf(k)),
                    signature |-> signHash(SHA256(fileBuffer.buffer), k),
                    signedAt |-> now],
     timestamp |-> ts,
     metadata |-> metadata]

\* signFile: digest of fileBuffer.buffer, size from fileBuffer.length
signFile(filename, fileBuffer, k, ts, metadata, now) ==
    [version |-> "1.0",
     file |-> [name |-> filename,
               hash |-> bufferToHex(SHA256(fileBuffer.buffer)),
               size |-> fileBuffer.length,
               mimeType |-> IF metadata = Null THEN Null ELSE metadata[1].mimeType],
     signature |-> [algorithm |-> "Ed25519",
                    publicKey |-> bufferToHex(PublicKeyOf(k)),
                    signature |-> signHash(SHA256(fileBuffer.buffer), k),
                    signedAt |-> now],
     timestamp |-> ts,
     metadata |-> metadata]

\* verifyFileSignature: the three checks in order; a rejected
\* verifySignature rejects the call
verifyFileSignature(sig, fileBuffer) ==
    LET hashErr == IF bufferToHex(SHA256(fileBuffer.buffer)) # sig.file.hash
                   THEN <<"File hash mismatch - file has been modified">> ELSE <<>>
        sizeErr == IF fileBuffer.length # sig.file.size
                   THEN <<"File size mismatch">> ELSE <<>>
        v == verifySignature(sig.file.hash, sig.signature.signature,
                             hexToBuffer(sig.signature.publicKey))
        sigErr == IF ~v.value THEN <<"Invalid signature">> ELSE <<>>
        errors == hashErr \o sizeErr \o sigErr
    IN  IF v.threw THEN [threw |-> TRUE, valid |-> FALSE, errors |-> <<>>]
        ELSE [threw |-> FALSE, valid |-> errors = <<>>, errors |-> errors]

SignFile(fileBuffer, metadata) ==
    /\ file = NoFile
    /\ IsView(fileBuffer)
    /\ file' = [stage |-> "signed", arg |-> fileBuffer, altered |-> "none",
                sig |-> signFile("20190814_102301.jpg", fileBuffer, keypair,
                                 MockTimestamp, metadata, clock)]
    /\ UNCHANGED <<keypair, clock, base, calls, stored, verdict, wire, jpeg, tsa>>

\* strings a field of the record may be replaced by before it is verified
Truncated(hex, n) == SubSeq(hex, 1, Len(hex) - n)

Alterations(sig) ==
    { [field |-> "signature", v |-> Truncated(sig.signature.signature, 1)],
      [field |-> "signature", v |-> Truncated(sig.signature.signature, 2)],
      [field |-> "signature", v |-> [sig.signature.signature EXCEPT ![1] = NonHex]],
      [field |-> "publicKey", v |-> Truncated(sig.signature.publicKey, 2)],
      [field |-> "publicKey", v |-> sig.signature.publicKey \o <<0, 0>>],
      [field |-> "hash", v |-> [sig.file.hash EXCEPT ![1] = (@ + 1) % 16]],
      [field |-> "hash", v |-> Truncated(sig.file.hash, 1)],
      [field |-> "hash", v |-> sig.file.hash \o <<0>>],
      [field |-> "hash", v |-> [sig.file.hash EXCEPT ![2] = NonHex]] }

AlterFileSignature ==
    /\ file # NoFile
    /\ file.altered = "none"
    /\ verdict = NoVerdict
    /\ \E a \in Alterations(file.sig) :
        file' = [file EXCEPT
                    !.altered = a.field,
                    !.sig = CASE a.field = "signature" -> [@ EXCEPT !.signature.signature = a.v]
                              [] a.field = "publicKey" -> [@ EXCEPT !.signature.publicKey = a.v]
                              [] a.field = "hash" -> [@ EXCEPT !.file.hash = a.v]]
    /\ UNCHANGED <<keypair, clock, base, calls, stored, verdict, wire, jpeg, tsa>>

\* authors the record's metadata may be given after signing
OtherAuthors == {"Mallory"}

\* the holder of the record changes metadata.author before it is verified
AlterMetadata ==
    /\ file # NoFile
    /\ file.altered = "none"
    /\ verdict = NoVerdict
    /\ file.sig.metadata # Null
    /\ \E author \in OtherAuthors :
        file' = [file EXCEPT
                    !.altered = "metadata",
                    !.sig.metadata = Some([@[1] EXCEPT !.author = author])]
    /\ UNCHANGED <<keypair, clock, base, calls, stored, verdict, wire, jpeg, tsa>>

VerifyFile(fileBuffer) ==
    /\ file # NoFile
    /\ verdict = NoVerdict
    /\ IsView(fileBuffer)
    /\ file.altered # "none" => fileBuffer = file.arg
    /\ LET r == verifyFileSignature(file.sig, fileBuffer)
       IN  verdict' = [op |-> "verifyFileSignature", publicKey |-> <<>>, arg |-> fileBuffer,
                       threw |-> r.threw, valid |-> r.valid, errors |-> r.errors]
    /\ UNCHANGED <<keypair, clock, base, calls, stored, file, wire, jpeg, tsa>>

\* verifySignature called with the record's strings and a key of the caller
VerifySignature(publicKey) ==
    /\ file # NoFile
    /\ verdict = NoVerdict
    /\ LET r == verifySignature(file.sig.file.hash, file.sig.signature.signature, publicKey)
       IN  verdict' = [op |-> "verifySignature", publicKey |-> publicKey, arg |-> file.arg,
                       threw |-> r.threw, valid |-> r.value, errors |-> <<>>]
    /\ UNCHANGED <<keypair, clock, base, calls, stored, file, wire, jpeg, tsa>>

(* -------------------------------- JSON -------------------------------- *)

\* A JavaScript value is a tree: <<"undefined">>, <<"null">>,
\* <<"string", s>>, <<"number", n>>, <<"array", items>> or
\* <<"object", props>>, props being the own enumerable properties in
\* insertion order, each a pair <<key, value>>.
Undefined == <<"undefined">>
JSNull == <<"null">>
JSString(s) == <<"string", s>>
JSNumber(n) == <<"number", n>>
JSArray(items) == <<"array", items>>
JSObject(props) == <<"object", props>>

\* JSON text, token by token: the punctuation marks, string and number
\* literals and null (white space, which the indent of 2 adds, separates
\* tokens and is dropped by the parser)
Punct(c) == <<c>>

\* JSON.stringify(value, null, 2): a property whose value is undefined is
\* left out of its object; an undefined array element is written as null
RECURSIVE JSONStringify(_)
JSONStringify(v) ==
    CASE v[1] = "object" ->
            LET kept == SelectSeq(v[2], LAMBDA prop : prop[2] # Undefined)
                member(i) ==
                    (IF i > 1 THEN <<Punct(",")>> ELSE <<>>)
                    \o <<<<"str", kept[i][1]>>, Punct(":")>>
                    \o JSONStringify(kept[i][2])
            IN  <<Punct("{")>> \o Flatten([i \in 1..Len(kept) |-> member(i)])
                \o <<Punct("}")>>
      [] v[1] = "array" ->
            LET element(i) ==
                    (IF i > 1 THEN <<Punct(",")>> ELSE <<>>)
                    \o JSONStringify(v[2][i])
            IN  <<Punct("[")>> \o Flatten([i \in 1..Len(v[2]) |-> element(i)])
                \o <<Punct("]")>>
      [] v[1] = "string" -> << <<"str", v[2]>> >>
      [] v[1] = "number" -> << <<"num", v[2]>> >>
      [] v[1] \in {"null", "undefined"} -> << <<"null">> >>

\* JSON.parse of a text JSON.stringify wrote: the value the text starts
\* with, and the tokens after it
RECURSIVE JSONValue(_)
RECURSIVE JSONMembers(_, _)
RECURSIVE JSONElements(_, _)
JSONValue(toks) ==
    LET t == Head(toks)
    IN  CASE t[1] = "{" ->
                IF toks[2][1] = "}"
                THEN [value |-> JSObject(<<>>), rest |-> Tail(Tail(toks))]
                ELSE JSONMembers(Tail(toks), <<>>)
          [] t[1] = "[" ->
                IF toks[2][1] = "]"
                THEN [value |-> JSArray(<<>>), rest |-> Tail(Tail(toks))]
                ELSE JSONElements(Tail(toks), <<>>)
          [] t[1] = "str" -> [value |-> JSString(t[2]), rest |-> Tail(toks)]
          [] t[1] = "num" -> [value |-> JSNumber(t[2]), rest |-> Tail(toks)]
          [] t[1] = "null" -> [value |-> JSNull, rest |-> Tail(toks)]

\* toks starts at a property name
JSONMembers(toks, props) ==
    LET v == JSONValue(Tail(Tail(toks)))
        sofar == Append(props, <<toks[1][2], v.value>>)
    IN  IF Head(v.rest)[1] = ","
        THEN JSONMembers(Tail(v.rest), sofar)
        ELSE [value |-> JSObject(sofar), rest |-> Tail(v.rest)]

\* toks starts at an array element
JSONElements(toks, items) ==
    LET v == JSONValue(toks)
        sofar == Append(items, v.value)
    IN  IF Head(v.rest)[1] = ","
        THEN JSONElements(Tail(v.rest), sofar)
        ELSE [value |-> JSArray(sofar), rest |-> Tail(v.rest)]

JSONParse(text) == JSONValue(text).value

\* the metadata object a caller passes: author and, when given, mimeType
MetadataObject(metadata) ==
    JSObject(<< <<"author", JSString(metadata.author)>> >>
             \o (IF metadata.mimeType = Null THEN <<>>
                 ELSE << <<"mimeType", JSString(metadata.mimeType[1])>> >>))

\* the object literal signFile returns: mimeType: metadata?.mimeType and
\* the shorthand metadata are own properties also when their value is
\* undefined
FileSignatureObject(sig) ==
    JSObject(<<
        <<"version", JSString(sig.version)>>,
        <<"file", JSObject(<<
            <<"name", JSString(sig.file.name)>>,
            <<"hash", JSString(sig.file.hash)>>,
            <<"size", JSNumber(sig.file.size)>>,
            <<"mimeType", IF sig.file.mimeType = Null THEN Undefined
                          ELSE JSString(sig.file.mimeType[1])>> >>)>>,
        <<"signature", JSObject(<<
            <<"algorithm", JSString(sig.signature.algorithm)>>,
            <<"publicKey", JSString(sig.signature.publicKey)>>,
            <<"signature", JSString(sig.signature.signature)>>,
            <<"signedAt", JSString(sig.signature.signedAt)>> >>)>>,
        <<"timestamp", JSObject(<<
            <<"authority", JSString(sig.timestamp.authority)>>,
            <<"token", JSString(sig.timestamp.token)>>,
            <<"verifiedAt", JSString(sig.timestamp.verifiedAt)>> >>)>>,
        <<"metadata", IF sig.metadata = Null THEN Undefined
                      ELSE MetadataObject(sig.metadata[1])>> >>)

\* the objects createSignedContent and addRevision build
RevisionObject(rev) ==
    JSObject(<<
        <<"content", JSString(rev.content)>>,
        <<"signature", JSObject(<<
            <<"contentHash", JSString(rev.signature.contentHash)>>,
            <<"signature", JSString(rev.signature.signature)>>,
            <<"publicKey", JSString(rev.signature.publicKey)>>,
            <<"timestamp", JSString(rev.signature.timestamp)>>,
            <<"tsaToken", JSString(rev.signature.tsaToken)>>,
            <<"verifiedTimestamp", JSString(rev.signature.verifiedTimestamp)>> >>)>>,
        <<"previousHash", IF rev.previousHash = Null THEN JSNull
                          ELSE JSString(rev.previousHash[1])>> >>)

SignedContentObject(c) ==
    JSObject(<<
        <<"content", JSString(c.content)>>,
        <<"revisions",
          JSArray([i \in 1..Len(c.revisions) |-> RevisionObject(c.revisions[i])])>>,
        <<"c2paManifest", JSObject(<<
            <<"hash", JSString(c.c2paManifest[1].hash)>>,
            <<"when", JSString(c.c2paManifest[1].when)>>,
            <<"publicKey", JSString(c.c2paManifest[1].publicKey)>>,
            <<"value", JSString(c.c2paManifest[1].value)>> >>)>> >>)

\* serializeFileSignature on the record signFile returned
SerializeFileSignature ==
    /\ file # NoFile
    /\ file.altered = "none"
    /\ verdict = NoVerdict
    /\ wire = NoWire
    /\ wire' = [stage |-> "text", object |-> FileSignatureObject(file.sig),
                text |-> JSONStringify(FileSignatureObject(file.sig))]
    /\ UNCHANGED <<keypair, clock, base, calls, stored, verdict, file, jpeg, tsa>>

\* serializeSignedContent on the chain the caller holds
SerializeSignedContent ==
    /\ base.revisions # <<>>
    /\ \A id \in CallIds : calls[id].pc = "idle"
    /\ stored = NoStored
    /\ wire = NoWire
    /\ wire' = [stage |-> "text", object |-> SignedContentObject(base),
                text |-> JSONStringify(SignedContentObject(base))]
    /\ UNCHANGED <<keypair, clock, base, calls, stored, verdict, file, jpeg, tsa>>

\* parseFileSignature / parseSignedContent on the text
ParseSerialized ==
    /\ wire # NoWire
    /\ wire.stage = "text"
    /\ wire' = [stage |-> "parsed", object |-> wire.object,
                text |-> wire.text, parsed |-> JSONParse(wire.text)]
    /\ UNCHANGED <<keypair, clock, base, calls, stored, verdict, file, jpeg, tsa>>

(* ----------------------------- JPEG / EXIF ---------------------------- *)

\* A JPEG file is read through the EXIF codec only: what the codec sees in
\* it is the EXIF segment, if there is one, and the image without it.
NoExif == [UserComment |-> Null, Artist |-> Null, ImageDescription |-> Null,
           Software |-> Null]

ExistingExif ==
    {Null,
     Some([NoExif EXCEPT !.Artist = Some("Someone")]),
     Some([NoExif EXCEPT !.UserComment = Some(<<Punct("{"), Punct("}")>>)])}

JpegImages ==
    {[exif |-> e, image |-> b] : e \in ExistingExif, b \in ArrayBuffers \ {<<>>}}

\* metadata a caller of signJpegWithExif passes; the second author holds
\* the text "Signature: " followed by a pair of braces
JpegMetadata == {[author |-> "Test Author"], [author |-> "Signature: {}"]}

SignatureMarked == {"Signature: {}"}

\* the codec: load gives the EXIF object (it throws when there is none),
\* remove a new array holding the image without EXIF, dump the segment of
\* an EXIF object, insert the file made of a segment and an image
load(jpegBuffer) ==
    IF jpegBuffer.exif = Null THEN Threw ELSE Returned(jpegBuffer.exif[1])

remove(jpegBuffer) ==
    [buffer |-> jpegBuffer.image, byteOffset |-> 0, length |-> Len(jpegBuffer.image)]

dump(exifObj) == Some(exifObj)

insert(exifBytes, cleanJpegBuffer) ==
    [exif |-> exifBytes, image |-> Bytes(cleanJpegBuffer)]

\* object[key] of a parsed object: undefined when it has no such property
Prop(object, key) ==
    IF \E i \in 1..Len(object[2]) : object[2][i][1] = key
    THEN LET i == CHOOSE i \in 1..Len(object[2]) : object[2][i][1] = key
         IN  object[2][i][2]
    ELSE Undefined

\* the fields verifyFileSignature reads from a parsed FileSignature
FileSignatureOf(object) ==
    [file |-> [hash |-> Prop(Prop(object, "file"), "hash")[2],
               size |-> Prop(Prop(object, "file"), "size")[2]],
     signature |-> [publicKey |-> Prop(Prop(object, "signature"), "publicKey")[2],
                    signature |-> Prop(Prop(object, "signature"), "signature")[2]]]

\* signJpegWithExif: the EXIF object is loaded (or started empty), the
\* image is stripped and signed, the signature is put into UserComment and
\* the author into Artist, and the EXIF is inserted into the stripped image
signJpegWithExif(jpegBuffer, filename, k, timestamp, metadata, now) ==
    LET exifObj == IF load(jpegBuffer).threw THEN NoExif ELSE load(jpegBuffer).value
        cleanJpegBuffer == remove(jpegBuffer)
        sig == signFile(filename, cleanJpegBuffer, k, timestamp,
                        Some([author |-> metadata.author,
                              mimeType |-> Some("image/jpeg")]), now)
        signedExif ==
            [exifObj EXCEPT
                !.UserComment = Some(JSONStringify(FileSignatureObject(sig))),
                !.Artist = Some(metadata.author),
                !.Software = Some("@substrate-system/keyframe")]
    IN  insert(dump(signedExif), cleanJpegBuffer)

\* userComment.includes('Signature: ') and the match of
\* /Signature: (\{.+\})/: the first string literal that holds the marker
\* (the file name and the author are the free text of the record)
MarkerAt(text, i) ==
    /\ i > 2
    /\ text[i - 1][1] = ":"
    /\ text[i - 2][2] \in {"name", "author"}
    /\ text[i][2] \in SignatureMarked

\* the group the regular expression captures: from the brace inside the
\* literal to the last closing brace of the text
sigMatch(text, i) ==
    <<Punct("{"), Punct("}"), Punct("\"")>> \o SubSeq(text, i + 1, Len(text))

\* verifyJpegExif
verifyJpegExif(jpegBuffer) ==
    LET failed(msg) == [valid |-> FALSE, signature |-> Null, errors |-> <<msg>>]
    IN  IF load(jpegBuffer).threw
        THEN failed("Failed to verify JPEG EXIF: ")
        ELSE IF load(jpegBuffer).value.UserComment = Null
        THEN failed("No signature found in EXIF metadata")
        ELSE
        LET userComment == load(jpegBuffer).value.UserComment[1]
            marked == {i \in 1..Len(userComment) : MarkerAt(userComment, i)}
            sigJson == IF marked = {} THEN userComment
                       ELSE sigMatch(userComment,
                                     CHOOSE i \in marked : \A j \in marked : i <= j)
        IN  IF JSONValue(sigJson).rest # <<>>
            THEN failed("Failed to parse signature JSON from EXIF")
            ELSE IF Prop(JSONParse(sigJson), "file") = Undefined
            THEN \* signature.file.hash raises a TypeError, which is caught
                 failed("Failed to verify JPEG EXIF: ")
            ELSE
            LET signature == JSONParse(sigJson)
                verification == verifyFileSignature(FileSignatureOf(signature),
                                                    remove(jpegBuffer))
            IN  IF verification.threw
                THEN failed("Failed to verify JPEG EXIF: ")
                ELSE [valid |-> verification.valid,
                      signature |-> Some(signature),
                      errors |-> verification.errors]

SignJpeg(jpegBuffer, metadata) ==
    /\ jpeg = NoJpeg
    /\ jpeg' = [stage |-> "signed", img |-> jpegBuffer, metadata |-> metadata,
                signed |-> signJpegWithExif(jpegBuffer, "20190814_102301.jpg",
                                            keypair, MockTimestamp, metadata, clock)]
    /\ UNCHANGED <<keypair, clock, base, calls, stored, verdict, file, wire, tsa>>

\* the signed JPEG, or the image as it was before signing, is verified
VerifyJpeg(signedOne) ==
    /\ jpeg # NoJpeg
    /\ jpeg.stage = "signed"
    /\ LET presented == IF signedOne THEN jpeg.signed ELSE jpeg.img
       IN  jpeg' = [stage |-> "verified", img |-> jpeg.img,
                    metadata |-> jpeg.metadata, signed |-> jpeg.signed,
                    presented |-> presented,
                    result |-> verifyJpegExif(presented)]
    /\ UNCHANGED <<keypair, clock, base, calls, stored, verdict, file, wire, tsa>>

(* ------------------------- the TSA exchange alone --------------------- *)

\* createTimeStampRequest for the hash of a content, a config and the
\* random bytes drawn
CreateRequest(content, config, nonce) ==
    /\ tsa = NoTsa
    /\ tsa' = [pc |-> "request", content |-> content, config |-> config,
               nonce |-> nonce,
               result |-> createTimeStampRequest(bufferToHex(hashContent(content)),
                                                 config, nonce)]
    /\ UNCHANGED <<keypair, clock, base, calls, stored, verdict, file, wire, jpeg>>

\* What a TSA may write at the genTime position: the fields of an instant,
\* a fraction (a dot and digits), a zone, and date-time digits that are
\* exact, one fewer or one more
Fractions ==
    {[dot |-> FALSE, digits |-> <<>>], [dot |-> TRUE, digits |-> <<>>],
     [dot |-> TRUE, digits |-> <<5>>], [dot |-> TRUE, digits |-> <<5, 0, 0>>],
     [dot |-> TRUE, digits |-> <<1, 2, 3, 4, 5, 6>>]}

TimeInputs ==
    {[year |-> y, month |-> mo, day |-> d, hour |-> h, minute |-> mi,
      second |-> sec, fraction |-> f, zone |-> z, digits |-> n] :
        y \in {1999, 2024}, mo \in {1, 12}, d \in {1, 28}, h \in {0, 12, 23},
        mi \in {0, 59}, sec \in {0, 59}, f \in Fractions,
        z \in {"Z", "", "+0100"}, n \in {"exact", "fewer", "more"}}

Noon2024 ==
    [year |-> 2024, month |-> 1, day |-> 1, hour |-> 12, minute |-> 0,
     second |-> 0, fraction |-> [dot |-> FALSE, digits |-> <<>>], zone |-> "Z",
     digits |-> "exact"]

\* the decimal digits of n, as characters
Digits(n, width) == [i \in 1..width |-> 48 + ((n \div (10 ^ (width - i))) % 10)]

TimeText(t) ==
    LET exact == Digits(t.year, 4) \o Digits(t.month, 2) \o Digits(t.day, 2)
                 \o Digits(t.hour, 2) \o Digits(t.minute, 2) \o Digits(t.second, 2)
        dateTime == CASE t.digits = "exact" -> exact
                      [] t.digits = "fewer" -> SubSeq(exact, 1, 13)
                      [] t.digits = "more" -> exact \o <<48>>
        fraction == IF t.fraction.dot
                    THEN <<46>> \o [i \in 1..Len(t.fraction.digits) |->
                                        48 + t.fraction.digits[i]]
                    ELSE <<>>
        zone == CASE t.zone = "Z" -> <<90>>
                  [] t.zone = "" -> <<>>
                  [] t.zone = "+0100" -> <<43, 48, 49, 48, 48>>
    IN  dateTime \o fraction \o zone

\* response bodies: the well-formed one, and bodies that lack a node, are
\* cut short, are no DER at all, or carry another tag where one is expected
TokenShapes ==
    {"good", "truncated", "notDER", "empty", "errorResponse", "noSignedData",
     "noEncapContentInfo", "noEContent", "eContentNotDER", "fourFieldTSTInfo",
     "genTimeUTF8String", "respIsSet"}

TokenInputs ==
    {[shape |-> "good", time |-> t] : t \in TimeInputs}
    \cup {[shape |-> sh, time |-> Noon2024] : sh \in TokenShapes}

BodyOf(input) ==
    LET text == TimeText(input.time)
        hashBytes == <<1, 97, 0>>
        nonce == <<1, 2, 3, 4, 5, 6, 7, 8>>
        tstInfo == TSTInfo(hashBytes, nonce, 24, text)
        good == DER(TimeStampResp(tstInfo))
        granted == Cons(48, <<Prim(2, <<0>>)>>)
        contentInfo(signedData) ==
            Cons(48, <<Prim(6, <<42, 7, 2>>), Cons(160, <<signedData>>)>>)
        signedDataOf(encap) == Cons(48, <<Prim(2, <<3>>), Cons(49, <<>>), encap>>)
    IN  CASE input.shape = "good" -> good
          [] input.shape = "truncated" -> SubSeq(good, 1, Len(good) - 1)
          [] input.shape = "notDER" -> <<255, 255, 255>>
          [] input.shape = "empty" -> <<>>
          [] input.shape = "errorResponse" ->
                DER(Cons(48, <<Cons(48, <<Prim(2, <<2>>)>>)>>))
          [] input.shape = "noSignedData" ->
                DER(Cons(48, <<granted, Cons(48, <<Prim(6, <<42, 7, 2>>)>>)>>))
          [] input.shape = "noEncapContentInfo" ->
                DER(Cons(48, <<granted,
                    contentInfo(Cons(48, <<Prim(2, <<3>>), Cons(49, <<>>)>>))>>))
          [] input.shape = "noEContent" ->
                DER(Cons(48, <<granted,
                    contentInfo(signedDataOf(Cons(48, <<Prim(6, <<42, 1, 4>>)>>)))>>))
          [] input.shape = "eContentNotDER" ->
                DER(Cons(48, <<granted,
                    contentInfo(signedDataOf(
                        Cons(48, <<Prim(6, <<42, 1, 4>>),
                                   Cons(160, <<Prim(4, <<255, 255, 255>>)>>)>>)))>>))
          [] input.shape = "fourFieldTSTInfo" ->
                DER(TimeStampResp(
                    Cons(48, SubSeq(tstInfo.children[1], 1, 4))))
          [] input.shape = "genTimeUTF8String" ->
                DER(TimeStampResp(TSTInfo(hashBytes, nonce, 12, text)))
          [] input.shape = "respIsSet" ->
                DER([TimeStampResp(tstInfo) EXCEPT !.type = 49])

\* requestTimestamp from a 2xx response with this body on
ResponseArrives(input) ==
    /\ tsa = NoTsa
    /\ tsa' = [pc |-> "parsed", input |-> input, token |-> BodyOf(input),
               parsed |-> parseTimestampToken(BodyOf(input)),
               result |-> requestTimestamp([kind |-> "ok", body |-> BodyOf(input)])]
    /\ UNCHANGED <<keypair, clock, base, calls, stored, verdict, file, wire, jpeg>>

(* ----------------- signContentWithTimestamp, step by step ------------- *)

\* the call before its first step has returned
SignCall(content, config) ==
    [pc |-> "hashed", content |-> content, config |-> config,
     contentHash |-> hashContent(content), basicSig |-> NoSig, nonce |-> <<>>,
     request |-> Null, answer |-> Null, response |-> Null, rt |-> Null,
     record |-> Null]

\* line 463 -> 441: hashContent, SHA-256 of the encoded content
HashStep(content, config) ==
    /\ tsa = NoTsa
    /\ tsa' = SignCall(content, config)
    /\ UNCHANGED <<keypair, clock, base, calls, stored, verdict, file, wire, jpeg>>

\* lines 442-452: signHash and the ContentSignature
SignStep ==
    /\ tsa.pc = "hashed"
    /\ tsa' = [tsa EXCEPT !.pc = "signed",
                          !.basicSig = signContent(tsa.content, keypair, clock)]
    /\ UNCHANGED <<keypair, clock, base, calls, stored, verdict, file, wire, jpeg>>

\* lines 466, 246-254: the request is built from basicSig.contentHash and
\* posted; a throw of createTimeStampRequest rejects the call
SendStep(nonce) ==
    /\ tsa.pc = "signed"
    /\ LET request == createTimeStampRequest(tsa.basicSig.contentHash,
                                             tsa.config, nonce)
       IN  tsa' = IF request.threw
                  THEN [tsa EXCEPT !.pc = "failed", !.nonce = nonce]
                  ELSE [tsa EXCEPT !.pc = "sent", !.nonce = nonce,
                                   !.request = Some(request.value)]
    /\ UNCHANGED <<keypair, clock, base, calls, stored, verdict, file, wire, jpeg>>

\* instants a TSA may write as genTime, and digit strings of the grammar
\* that denote no instant
CalendarTimes ==
    {Noon2024,
     [Noon2024 EXCEPT !.fraction = [dot |-> TRUE, digits |-> <<5, 0, 0>>]],
     [Noon2024 EXCEPT !.month = 13],
     [Noon2024 EXCEPT !.day = 32],
     [Noon2024 EXCEPT !.hour = 25],
     [Noon2024 EXCEPT !.minute = 60]}

\* what comes back for a request: no response, a status that is not 2xx,
\* or a 2xx response whose TSTInfo carries the hash and nonce of the
\* request or those of another request, and a genTime
TSAAnswers ==
    {[kind |-> "network", hash |-> "submitted", nonce |-> "sent", time |-> Noon2024],
     [kind |-> "status", hash |-> "submitted", nonce |-> "sent", time |-> Noon2024]}
    \cup {[kind |-> "ok", hash |-> h, nonce |-> n, time |-> t] :
            h \in {"submitted", "other"}, n \in {"sent", "other"},
            t \in CalendarTimes}

\* the TSA reads hashedMessage and nonce from the request it was sent and
\* writes its response
AnswerTo(request, answer) ==
    LET fields == DERNode(request).node.children[1]
        hashedMessage == fields[2].children[1][2].value[1]
        nonce == fields[3].value[1]
        hashBytes == IF answer.hash = "submitted" THEN hashedMessage
                     ELSE [hashedMessage EXCEPT ![1] = (@ + 1) % 256]
        nonceBytes == IF answer.nonce = "sent" THEN nonce
                      ELSE [nonce EXCEPT ![Len(nonce)] = (@ + 1) % 256]
    IN  [kind |-> answer.kind,
         body |-> IF answer.kind = "network" THEN <<>>
                  ELSE DER(TimeStampResp(TSTInfo(hashBytes, nonceBytes, 24,
                                                 TimeText(answer.time))))]

\* lines 256-266 and 471-475: requestTimestamp returns or throws, then the
\* record is assembled; timestamp.toISOString() may throw as well
ReplyStep(answer) ==
    /\ tsa.pc = "sent"
    /\ LET response == AnswerTo(tsa.request[1], answer)
           rt == requestTimestamp(response)
       IN  tsa' = IF TimestampFails(rt)
                  THEN [tsa EXCEPT !.pc = "failed", !.answer = Some(answer),
                                   !.response = Some(response), !.rt = Some(rt)]
                  ELSE [tsa EXCEPT !.pc = "done", !.answer = Some(answer),
                                   !.response = Some(response), !.rt = Some(rt),
                                   !.record = Some(Timestamped(tsa.basicSig, rt))]
    /\ UNCHANGED <<keypair, clock, base, calls, stored, verdict, file, wire, jpeg>>

(* --------------------------- specification ---------------------------- *)

Init ==
    /\ keypair \in KeyIds
    /\ clock = 1
    /\ base = EmptyChain
    /\ calls = [id \in CallIds |-> IdleCall]
    /\ stored = NoStored
    /\ verdict = NoVerdict
    /\ file = NoFile
    /\ wire = NoWire
    /\ jpeg = NoJpeg
    /\ tsa = NoTsa

Building == stored = NoStored /\ wire = NoWire

\* a caller that edits, fails, retries and has the result verified
Next ==
    \/ \E c \in Contents : Building /\ CreateStart(1, c)
    \/ \E c \in Contents : Building /\ AddStart(1, c)
    \/ \E r \in TSAResponses : TSAReply(1, r)
    \/ Keep(1)
    \/ Catch(1)
    \/ \E c \in Contents : Building /\ SetContent(c)
    \/ wire = NoWire /\ Store
    \/ \E pk \in PublicKeyArgs : VerifyChain(pk)
    \/ SerializeSignedContent
    \/ ParseSerialized

Spec == Init /\ [][Next]_vars

\* a chain built without incident by the first keypair, then changed in
\* storage and verified under that keypair's public key
InitStorage == Init /\ keypair = 1

NextStorage ==
    \/ \E c \in Contents : Building /\ CreateStart(1, c)
    \/ \E c \in Contents : Building /\ AddStart(1, c)
    \/ \E r \in {x \in TSAResponses : ~TimestampFails(requestTimestamp(x))} : TSAReply(1, r)
    \/ Keep(1)
    \/ Store
    \/ Corrupt
    \/ Reorder
    \/ VerifyChain(PublicKeyOf(keypair))

SpecStorage == InitStorage /\ [][NextStorage]_vars

\* a file is signed, the record is perhaps altered, and it is verified
NextFile ==
    \/ \E u \in Uint8Arrays, m \in FileMetadata : SignFile(u, m)
    \/ wire = NoWire /\ AlterFileSignature
    \/ wire = NoWire /\ AlterMetadata
    \/ \E u \in Uint8Arrays : wire = NoWire /\ VerifyFile(u)
    \/ \E pk \in PublicKeyArgs : wire = NoWire /\ VerifySignature(pk)
    \/ SerializeFileSignature
    \/ ParseSerialized

SpecFile == Init /\ [][NextFile]_vars

\* a JPEG is signed with embedded EXIF and a JPEG is verified
NextJpeg ==
    \/ \E j \in JpegImages, m \in JpegMetadata : SignJpeg(j, m)
    \/ \E signedOne \in BOOLEAN : VerifyJpeg(signedOne)

SpecJpeg == Init /\ [][NextJpeg]_vars

\* requests are built for contents, configs and nonces
NextRequest ==
    \E c \in Contents, config \in TSAConfigs, nonce \in Nonces :
        CreateRequest(c, config, nonce)

SpecRequest == Init /\ [][NextRequest]_vars

\* response bodies arrive and are parsed
NextToken == \E input \in TokenInputs : ResponseArrives(input)

SpecToken == Init /\ [][NextToken]_vars

\* one signContentWithTimestamp call, step by step
NextSign ==
    \/ \E c \in Contents, config \in {x \in TSAConfigs : x.policyOID = Null} :
        HashStep(c, config)
    \/ SignStep
    \/ \E nonce \in Nonces : SendStep(nonce)
    \/ \E answer \in TSAAnswers : ReplyStep(answer)

SpecSign == Init /\ [][NextSign]_vars

\* a chain is created and grown by one caller without incident; then two
\* addRevision calls are given the same chain object, the second while the
\* first waits for the TSA; the answers, good or bad, come in any order, and
\* the caller keeps a result or sees a failure. Every call starts at a clock
\* reading of its own.
NextConcurrent ==
    \/ \E c \in Contents :
        clock < MaxClock /\ calls[2].pc = "idle" /\ CreateStart(1, c)
    \/ \E c \in Contents :
        clock < MaxClock /\ calls[2].pc = "idle" /\ AddStart(1, c)
    \/ \E c \in Contents :
        /\ clock < MaxClock
        /\ calls[1].pc = "tsa" /\ calls[1].op = "add"
        /\ AddStart(2, c)
    \/ \E id \in CallIds, r \in TSAResponses :
        /\ calls[2].pc = "idle" => ~TimestampFails(requestTimestamp(r))
        /\ TSAReply(id, r)
    \/ \E id \in CallIds : Keep(id)
    \/ \E id \in CallIds : Catch(id)

SpecConcurrent == InitStorage /\ [][NextConcurrent]_vars

\* one caller builds a chain and changes the revisions array of the chain
\* object while addRevision waits for the TSA
NextMutation ==
    \/ \E c \in Contents : clock < MaxClock /\ CreateStart(1, c)
    \/ \E c \in Contents : clock < MaxClock /\ AddStart(1, c)
    \/ \E r \in TSAResponses : TSAReply(1, r)
    \/ Keep(1)
    \/ Catch(1)
    \/ PopRevision

SpecMutation == InitStorage /\ [][NextMutation]_vars

\* a chain whose revisions are signed with keypairs of the caller's
\* choice, each revision changing the content; it is stored, a field
\* verifyChain does not read is changed or the end is cut off, and it is
\* verified under a key of the verifier's choice
NextKeys ==
    \/ \E c \in Contents : Building /\ clock < MaxClock /\ CreateStart(1, c)
    \/ \E c \in Contents :
        Building /\ clock < MaxClock /\ c # base.content /\ AddStart(1, c)
    \/ \E r \in {x \in TSAResponses : ~TimestampFails(requestTimestamp(x))} :
        TSAReply(1, r)
    \/ Keep(1)
    \/ \E k \in KeyIds : UseKeypair(k)
    \/ Store
    \/ ChangeUnread
    \/ \E n \in 0..(MaxRevisions - 1) : Truncate(n)
    \/ \E pk \in PublicKeyArgs : VerifyChain(pk)

SpecKeys == Init /\ [][NextKeys]_vars

(* ------------------------------ properties ---------------------------- *)

IsPrefix(s, t) == Len(s) <= Len(t) /\ SubSeq(t, 1, Len(s)) = s

ChainVerdict == verdict.op = "verifyChain"
FileVerdict == verdict.op = "verifyFileSignature"

\* C1: a chain made by createSignedContent and any number of addRevision
\* calls with one keypair verifies under that keypair's public key with no
\* errors, and the chain createSignedContent returns has exactly one
\* revision, whose previousHash is null.
C1_BuiltChainVerifies ==
    /\ (ChainVerdict /\ verdict.publicKey = PublicKeyOf(keypair))
        => (~verdict.threw /\ verdict.valid /\ verdict.errors = <<>>)
    /\ \A id \in CallIds :
        (calls[id].pc = "done" /\ calls[id].op = "create")
        => /\ Len(calls[id].result.revisions) = 1
           /\ calls[id].result.revisions[1].previousHash = Null

C1_Witness ==
    /\ ChainVerdict
    /\ verdict.publicKey = PublicKeyOf(keypair)
    /\ verdict.valid
    /\ Len(stored.chain.revisions) = 4

\* C2: the revision addRevision appends carries as previousHash the
\* contentHash of the last revision of the input chain, whatever the input's
\* content field holds.
C2_PreviousHashFromLastRevision ==
    \A id \in CallIds :
        (calls[id].pc = "done" /\ calls[id].op = "add")
        => Last(calls[id].result.revisions).previousHash
            = Some(Last(calls[id].input.revisions).signature.contentHash)

C2_Witness ==
    \E id \in CallIds :
        /\ calls[id].pc = "done"
        /\ calls[id].op = "add"
        /\ calls[id].input.content # Last(calls[id].input.revisions).content
        /\ Last(calls[id].result.revisions).previousHash
            # Some(bufferToHex(hashContent(calls[id].input.content)))

\* C3: when addRevision resolves, the input chain is what it was before and
\* the returned revisions are the input's followed by one new revision; the
\* revisions the caller holds only ever grow at the end.
C3_InputChainUntouched ==
    [][ /\ \A id \in CallIds :
            (calls[id].pc = "tsa" /\ calls[id].op = "add" /\ calls'[id].pc = "done")
            => /\ base' = base
               /\ calls'[id].input = base
               /\ Len(calls'[id].result.revisions) = Len(base.revisions) + 1
               /\ IsPrefix(base.revisions, calls'[id].result.revisions)
        /\ IsPrefix(base.revisions, base'.revisions) ]_vars

C3_Witness ==
    \E id \in CallIds :
        /\ calls[id].pc = "done"
        /\ calls[id].op = "add"
        /\ Len(base.revisions) = 3
        /\ calls[id].input = base
        /\ Len(calls[id].result.revisions) = 4

\* C4: changing the content of revision i alone, in a chain that was built
\* by createSignedContent and addRevision, makes verifyChain report exactly
\* one error, the content hash mismatch of revision i.
C4_OneHashMismatch ==
    (ChainVerdict /\ Len(stored.faults) = 1 /\ stored.faults[1].kind = "content")
    => /\ ~verdict.threw
       /\ ~verdict.valid
       /\ verdict.errors = <<[index |-> stored.faults[1].index, kind |-> "hash"]>>

C4_Witness ==
    /\ ChainVerdict
    /\ Len(stored.chain.revisions) = 4
    /\ stored.faults = <<[kind |-> "content", index |-> 1]>>
    /\ verdict.errors = <<[index |-> 1, kind |-> "hash"]>>

\* whether a check of revision i (counted from 0) fails, stated on the
\* stored chain
CheckFails(revisions, i, check, publicKey) ==
    LET rev == revisions[i + 1]
    IN  CASE check = "hash" ->
                rev.signature.contentHash # bufferToHex(SHA256(TextEncode(rev.content)))
          [] check = "signature" ->
                ~\E k \in KeyIds :
                    /\ publicKey = PublicKeyOf(k)
                    /\ hexToBuffer(rev.signature.signature)
                        = Ed25519Sign(k, hexToBuffer(rev.signature.contentHash))
          [] check = "linkage" ->
                i > 0 /\ rev.previousHash # Some(revisions[i].signature.contentHash)
          [] check = "first" ->
                i = 0 /\ rev.previousHash # Null

Checks == {"hash", "signature", "linkage", "first"}

Occurrences(errors, e) == Cardinality({p \in DOMAIN errors : errors[p] = e})

\* C5: verifyChain reports, in index order, exactly one error for every
\* check of every revision that fails, whatever failed before it.
C5_EveryFailureReported ==
    (ChainVerdict /\ ~verdict.threw)
    => /\ \A i \in 0..(Len(stored.chain.revisions) - 1), check \in Checks :
            Occurrences(verdict.errors, [index |-> i, kind |-> check])
            = IF CheckFails(stored.chain.revisions, i, check, verdict.publicKey)
              THEN 1 ELSE 0
       /\ \A p \in DOMAIN verdict.errors :
            /\ verdict.errors[p].index \in 0..(Len(stored.chain.revisions) - 1)
            /\ verdict.errors[p].kind \in Checks
       /\ \A p, q \in DOMAIN verdict.errors :
            p < q => verdict.errors[p].index <= verdict.errors[q].index
       /\ verdict.valid = (verdict.errors = <<>>)

C5_Witness ==
    /\ ChainVerdict
    /\ stored.faults = <<[kind |-> "content", index |-> 0],
                         [kind |-> "signature", index |-> 2]>>
    /\ verdict.errors = <<[index |-> 0, kind |-> "hash"],
                          [index |-> 2, kind |-> "signature"]>>

\* C6: a chain of two or more revisions that was valid and whose revisions
\* are then put in another order, or in which a content or a previousHash
\* is changed, is reported invalid.
C6_ReorderingAndTamperingDetected ==
    ( /\ ChainVerdict
      /\ Len(stored.from.revisions) >= 2
      /\ Len(stored.faults) = 1
      /\ stored.faults[1].kind \in {"order", "content", "previousHash"}
      /\ stored.chain # stored.from )
    => ~verdict.valid

\* C7: a verification given a cryptographically invalid input returns a
\* negative result and does not throw.
C7_VerificationNeverThrows ==
    ( /\ verdict.op \in {"verifySignature", "verifyFileSignature"}
      /\ \/ FileVerdict /\ file.altered # "none"
         \/ verdict.op = "verifySignature" /\ file.altered \in {"signature", "hash"}
         \/ verdict.op = "verifySignature" /\ verdict.publicKey # PublicKeyOf(keypair) )
    => /\ ~verdict.threw
       /\ ~verdict.valid
       /\ FileVerdict => verdict.errors # <<>>

\* C8: the record signFile returns for a file verifies against that file
\* with no errors.
C8_SignedFileVerifies ==
    (FileVerdict /\ file.altered = "none" /\ verdict.arg = file.arg)
    => (~verdict.threw /\ verdict.valid /\ verdict.errors = <<>>)

C8_Witness ==
    /\ FileVerdict
    /\ file.altered = "none"
    /\ verdict.arg = file.arg
    /\ file.arg.length = 1
    /\ Len(file.arg.buffer) = 2
    /\ verdict.valid

\* the number of positions at which two byte strings of one length differ
Differences(a, b) == Cardinality({i \in DOMAIN a : a[i] # b[i]})

\* C9: a file of the same length that differs in exactly one byte from the
\* signed one is reported invalid with the file hash mismatch.
C9_OneByteChangeDetected ==
    ( /\ FileVerdict
      /\ file.altered = "none"
      /\ verdict.arg.length = file.arg.length
      /\ Differences(Bytes(verdict.arg), Bytes(file.arg)) = 1 )
    => /\ ~verdict.valid
       /\ \E p \in DOMAIN verdict.errors :
            verdict.errors[p] = "File hash mismatch - file has been modified"

\* C10: file.hash is the digest of the bytes the fileBuffer argument
\* exposes and file.size their number.
C10_HashOfExposedBytes ==
    (file # NoFile /\ file.altered = "none")
    => /\ file.sig.file.hash = bufferToHex(SHA256(Bytes(file.arg)))
       /\ file.sig.file.size = Len(Bytes(file.arg))

\* C11: a signature verifies exactly for the hash string and the key it was
\* made with: verifySignature is true under the signer's public key and the
\* hex form h of the signed digest, false under another keypair's public
\* key, and false for every hash string other than h; the hex form of the
\* digest reads back as the digest.
C11_VerifiesExactlyForHashAndKey ==
    /\ file # NoFile
        => hexToBuffer(bufferToHex(SHA256(file.arg.buffer))) = SHA256(file.arg.buffer)
    /\ ( /\ verdict.op = "verifySignature"
         /\ Len(verdict.publicKey) = PubLen
         /\ file.altered \in {"none", "hash"} )
        => /\ ~verdict.threw
           /\ verdict.valid
                = ( /\ verdict.publicKey = PublicKeyOf(keypair)
                    /\ file.sig.file.hash = bufferToHex(SHA256(file.arg.buffer)) )

\* C12: a record that is serialized and parsed back is the record that was
\* serialized, property for property: a FileSignature signFile returned,
\* with or without metadata and mimeType, and a chain with its content, its
\* revisions in order and every field of every revision.
C12_SerializationRoundTrips ==
    (wire # NoWire /\ wire.stage = "parsed") => wire.parsed = wire.object

\* C13: the JPEG that signJpegWithExif returns is reported valid by
\* verifyJpegExif, together with the signature embedded in it, whatever
\* EXIF the image had before and whatever the metadata; the embedded
\* file.hash is the hash of the image without EXIF, and the signed file is
\* not the file that was given.
C13_SignedJpegVerifies ==
    (jpeg.stage = "verified" /\ jpeg.presented = jpeg.signed)
    => /\ jpeg.result.valid
       /\ jpeg.result.errors = <<>>
       /\ jpeg.result.signature = Some(JSONParse(load(jpeg.signed).value.UserComment[1]))
       /\ Prop(Prop(jpeg.result.signature[1], "file"), "hash")[2]
            = bufferToHex(SHA256(jpeg.img.image))
       /\ jpeg.signed # jpeg.img

\* C14: when the TSA answers with a status that is not 2xx, or the
\* transport fails, requestTimestamp throws and gives neither token nor
\* timestamp, and the createSignedContent or addRevision call that waited
\* for it rejects: it returns no chain, and the chain it was given is
\* left as it was.
C14_TSAFailureSurfaces ==
    [][ \A id \in CallIds :
            ( /\ calls[id].pc = "tsa"
              /\ calls'[id].pc # "tsa"
              /\ calls'[id].response \in {"network", "status"} )
            => /\ calls'[id].pc = "failed"
               /\ calls'[id].result = EmptyChain
               /\ calls'[id].input = InputOf(calls[id])
               /\ base' = base
               /\ \A r \in TSAResponses :
                    r.kind = calls'[id].response
                    => requestTimestamp(r) = NoTimestamp ]_vars

C14_Witness ==
    \E id \in CallIds :
        /\ calls[id].pc = "failed"
        /\ calls[id].op = "add"
        /\ calls[id].response = "status"
        /\ Len(base.revisions) = 2
        /\ calls[id].input = base

\* C15: a call sends one TSA request and waits for its one response; no
\* second request is sent, whether the response is a success, a status
\* that is not 2xx, a transport error or a body that does not parse.
C15_OneRequestPerCall ==
    [][ \A id \in CallIds :
            /\ calls'[id].pc \in {"tsa", "done"} => calls'[id].sent = 1
            /\ calls'[id].pc = "failed" => calls'[id].sent <= 1
            /\ calls[id].pc = "tsa"
                => /\ calls'[id].sent = calls[id].sent
                   /\ calls'[id].pc \in {"tsa", "done", "failed"}
                   /\ calls'[id].pc = "tsa" => calls'[id] = calls[id] ]_vars

C15_Witness ==
    \E id \in CallIds :
        /\ calls[id].pc = "failed"
        /\ calls[id].response = "ok"
        /\ calls[id].sent = 1

\* C16: parseTimestampToken gives a timestamp only for a response whose
\* whole nesting is present and well formed: bytes that are cut short or
\* no DER, a response that lacks a node on the way to genTime, and a
\* response with another tag at an expected position all raise an error,
\* and requestTimestamp then gives no token.
C16_MalformedResponseRejected ==
    (tsa.pc = "parsed" /\ tsa.input.shape # "good")
    => (tsa.parsed.threw /\ tsa.result = NoTimestamp)

\* the instant a time input denotes, and whether its text is of the grammar
\* YYYYMMDDHHMMSS[.fraction]Z
InstantOf(t) ==
    LET f == t.fraction.digits
        digit(k) == IF k <= Len(f) THEN f[k] ELSE 0
    IN  [valid |-> TRUE, year |-> t.year, month |-> t.month, day |-> t.day,
         hour |-> t.hour, minute |-> t.minute, second |-> t.second,
         ms |-> 100 * digit(1) + 10 * digit(2) + digit(3)]

InGrammar(t) ==
    /\ t.digits = "exact"
    /\ t.zone = "Z"
    /\ t.fraction.dot => t.fraction.digits # <<>>

\* C17: a genTime of the grammar YYYYMMDDHHMMSS[.fraction]Z is parsed to
\* the UTC instant with those fields; a string without the trailing Z, with
\* a numeric offset, with fewer or more date-time digits or with an empty
\* fraction is rejected with an error.
C17_GenTimeGrammar ==
    (tsa.pc = "parsed" /\ tsa.input.shape = "good")
    => IF InGrammar(tsa.input.time)
       THEN /\ ~tsa.parsed.threw
            /\ tsa.parsed.value = InstantOf(tsa.input.time)
            /\ ~tsa.result.threw
            /\ tsa.result.timestamp = InstantOf(tsa.input.time)
       ELSE tsa.parsed.threw /\ tsa.result = NoTimestamp

C17_Witness ==
    /\ tsa.pc = "parsed"
    /\ tsa.input.shape = "good"
    /\ tsa.input.time = [Noon2024 EXCEPT !.fraction = [dot |-> TRUE, digits |-> <<5, 0, 0>>]]
    /\ tsa.parsed = Returned([valid |-> TRUE, year |-> 2024, month |-> 1, day |-> 1,
                              hour |-> 12, minute |-> 0, second |-> 0, ms |-> 500])

\* the fields of a request, read back from its bytes
RequestNode(request) == DERNode(request).node
RequestFields(request) == RequestNode(request).children[1]

\* C18: the request createTimeStampRequest builds is a SEQUENCE of four
\* fields, in this order: INTEGER 1; SEQUENCE { SEQUENCE { OID, NULL },
\* OCTET STRING holding the hash bytes }; INTEGER made of the 8 random
\* bytes; BOOLEAN true.  config.policyOID does not change it.
C18_RequestStructure ==
    (tsa.pc = "request" /\ ~tsa.result.threw)
    => LET request == tsa.result.value
           fields == RequestFields(request)
           messageImprint == fields[2]
           algorithm == messageImprint.children[1][1]
       IN  /\ DERNode(request).ok
           /\ RequestNode(request).type = 48
           /\ Len(fields) = 4
           /\ fields[1] = Prim(2, <<1>>)
           /\ messageImprint.type = 48
           /\ Len(messageImprint.children[1]) = 2
           /\ algorithm.type = 48
           /\ Len(algorithm.children[1]) = 2
           /\ algorithm.children[1][1].type = 6
           /\ algorithm.children[1][2] = Prim(5, <<>>)
           /\ messageImprint.children[1][2]
                = Prim(4, SHA256(TextEncode(tsa.content)))
           /\ fields[3].type = 2
           /\ fields[3].value[1] \in {tsa.nonce, <<0>> \o tsa.nonce}
           /\ fields[4].type = 1
           /\ fields[4].value[1] # <<0>>
           /\ Len(fields[4].value[1]) = 1
           /\ tsa.result
                = createTimeStampRequest(bufferToHex(hashContent(tsa.content)),
                                         [tsa.config EXCEPT !.policyOID = Null],
                                         tsa.nonce)

C18_Witness ==
    /\ tsa.pc = "request"
    /\ ~tsa.result.threw
    /\ tsa.config.policyOID # Null
    /\ tsa.config.hashAlgorithm = Some("sha512")
    /\ tsa.nonce[1] = 128
    /\ Len(RequestFields(tsa.result.value)) = 4

\* C19: building the request does not fail on the hash-algorithm name: an
\* absent, empty or unsupported name gives the SHA-256 OID, and each of
\* sha256, sha384 and sha512 its own OID.
C19_OidFallback ==
    tsa.pc = "request"
    => /\ ~tsa.result.threw
       /\ LET algorithm == RequestFields(tsa.result.value)[2].children[1][1]
              name == tsa.config.hashAlgorithm
          IN  algorithm.children[1][1].value[1]
                = hexToBuffer(CASE name = Some("sha384") -> OidSha384
                                [] name = Some("sha512") -> OidSha512
                                [] OTHER -> OidSha256)

\* what addRevision(signedContent, newContent, keypair) returns when no other
\* call is under way: started at the clock reading now and answered by resp
AddRevisionAlone(signedContent, newContent, k, now, resp) ==
    Resolve([IdleCall EXCEPT !.op = "add", !.content = newContent, !.key = k,
                             !.previousHash = PreviousHashOf(signedContent),
                             !.basicSig = signContent(newContent, k, now)],
            signedContent, requestTimestamp(resp)).result

\* the chain object call id was given, before and after the step
Given(id) == IF calls[id].shared THEN base ELSE calls[id].input
GivenAfter(id) == IF calls'[id].shared THEN base' ELSE calls'[id].input

\* C20: two addRevision calls started on the same base chain and answered by
\* the TSA in any order share no state: while a call waits, the chain object
\* it was given stays what it was; a call that resolves leaves the base as it
\* is and returns the base's revisions followed by exactly one revision, its
\* own, a chain that verifyChain reports valid, and the very chain the call
\* returns when it runs alone from the same clock reading and TSA answer.
C20_ConcurrentCallsIndependent ==
    [][ \A id \in CallIds :
          (calls[id].pc = "tsa" /\ calls[id].op = "add")
          => /\ calls'[id].pc # "idle" => GivenAfter(id) = Given(id)
             /\ calls'[id].pc = "done"
                => /\ base' = base
                   /\ calls'[id].result.revisions
                        = Given(id).revisions
                            \o <<Last(calls'[id].result.revisions)>>
                   /\ Last(calls'[id].result.revisions).content = calls[id].content
                   /\ verifyChain(calls'[id].result,
                                  PublicKeyOf(calls[id].key)).valid
                   /\ \E r \in TSAResponses :
                        calls'[id].result
                            = AddRevisionAlone(Given(id), calls[id].content,
                                               calls[id].key,
                                               calls[id].basicSig.timestamp, r) ]_vars

\* both calls were given the same chain of one revision, the second started
\* after the first, and both have resolved, each with its own second revision
C20_Witness ==
    /\ \A id \in CallIds :
        /\ calls[id].pc = "done"
        /\ calls[id].op = "add"
        /\ calls[id].shared
        /\ Len(calls[id].result.revisions) = 2
    /\ Len(base.revisions) = 1
    /\ calls[1].content # calls[2].content
    /\ calls[1].basicSig.timestamp < calls[2].basicSig.timestamp

\* C21: a FileSignature whose metadata was changed after signFile returned
\* it is reported invalid by verifyFileSignature against the file that was
\* signed.
C21_MetadataIsSigned ==
    (FileVerdict /\ file.altered = "metadata" /\ verdict.arg = file.arg)
    => (~verdict.threw /\ ~verdict.valid)

\* C22: in the chain addRevision returns, the appended revision's
\* previousHash is the contentHash of the revision right before it in the
\* returned list, also when the caller changed the chain object's revisions
\* while the TSA request was in flight.
C22_LinkFollowsReturnedList ==
    \A id \in CallIds :
        (calls[id].pc = "done" /\ calls[id].op = "add")
        => LET revisions == calls[id].result.revisions
           IN  /\ Len(revisions) >= 2
               /\ Last(revisions).previousHash
                    = Some(revisions[Len(revisions) - 1].signature.contentHash)

SignPcs == {"hashed", "signed", "sent", "done", "failed"}

\* what a request and a response body carry, read back from their bytes
HashedMessageOf(request) == RequestFields(request)[2].children[1][2].value[1]
AlgorithmOf(request) == RequestFields(request)[2].children[1][1].children[1][1].value[1]
NonceOf(request) == RequestFields(request)[3].value[1]
TSTInfoOf(body) ==
    DERNode(DERNode(body).node.children[1][2].children[1][2].children[1][1]
                .children[1][3].children[1][2].children[1][1].value[1]).node

\* C23: signContentWithTimestamp hashes, signs, sends the TSA request and
\* then assembles: nothing is signed before the hash is there, nothing sent
\* before the signature is there, the hash in the request is the contentHash
\* of the returned record, the record's tsaToken is the base64 of the body
\* of the response to that request and its verifiedTimestamp the genTime of
\* that body, and no record exists before the response has arrived.
C23_HashSignRequestAssemble ==
    tsa.pc \in SignPcs
    => /\ tsa.pc = "hashed" => tsa.basicSig = NoSig
       /\ tsa.pc \in {"hashed", "signed"} => tsa.request = Null
       /\ tsa.pc \in {"hashed", "signed", "sent"}
            => (tsa.response = Null /\ tsa.record = Null)
       /\ tsa.request # Null
            => /\ tsa.basicSig = signContent(tsa.content, keypair, clock)
               /\ HashedMessageOf(tsa.request[1]) = tsa.contentHash
               /\ HashedMessageOf(tsa.request[1])
                    = hexToBuffer(tsa.basicSig.contentHash)
       /\ tsa.pc = "done" <=> tsa.record # Null
       /\ tsa.record # Null
            => /\ tsa.response # Null
               /\ tsa.response[1].kind = "ok"
               /\ tsa.record[1].contentHash
                    = bufferToHex(HashedMessageOf(tsa.request[1]))
               /\ tsa.record[1].signature = tsa.basicSig.signature
               /\ tsa.record[1].tsaToken = bufferToBase64(tsa.response[1].body)
               /\ tsa.record[1].verifiedTimestamp = InstantOf(tsa.answer[1].time)
               /\ TSTInfoOf(tsa.response[1].body).children[1][5].value[1]
                    = TimeText(tsa.answer[1].time)

C23_Witness ==
    /\ tsa.pc = "done"
    /\ tsa.record # Null
    /\ tsa.answer[1].time.fraction.dot
    /\ tsa.record[1].verifiedTimestamp.ms = 500
    /\ tsa.record[1].tsaToken # bufferToBase64(GoodBody)
    /\ tsa.config.hashAlgorithm = Some("sha256")

\* C27: a token and timestamp are returned only for a response that answers
\* the request: its TSTInfo carries the hash that was submitted and the
\* nonce that was sent; any other response yields no verifiedTimestamp.
C27_ResponseAnswersRequest ==
    (tsa.pc \in SignPcs /\ tsa.rt # Null /\ ~tsa.rt[1].threw)
    => LET tstInfo == TSTInfoOf(tsa.response[1].body).children[1]
       IN  /\ tstInfo[3].children[1][2].value[1] = HashedMessageOf(tsa.request[1])
           /\ tstInfo[6].value[1] = NonceOf(tsa.request[1])

\* C28: every timestamp requestTimestamp returns is a valid instant, so the
\* call never fails while it converts the timestamp to verifiedTimestamp.
C28_TimestampIsValidInstant ==
    (tsa.pc \in SignPcs /\ tsa.rt # Null /\ ~tsa.rt[1].threw)
    => /\ tsa.rt[1].timestamp.valid
       /\ tsa.pc = "done"

\* digest lengths of the three algorithms, in proportion to the modelled
\* SHA-256 length (32 : 48 : 64)
DigestLength ==
    [sha256 |-> HashLen, sha384 |-> (3 * HashLen) \div 2, sha512 |-> 2 * HashLen]

\* C29: for hashAlgorithm sha256, sha384 or sha512 the OID in the request's
\* MessageImprint names the algorithm the hashedMessage was computed with,
\* and the hashedMessage has that algorithm's digest length.
C29_OidNamesDigestAlgorithm ==
    (tsa.pc \in SignPcs /\ tsa.request # Null
        /\ tsa.config.hashAlgorithm \in {Some("sha256"), Some("sha384"), Some("sha512")})
    => LET name == tsa.config.hashAlgorithm[1]
       IN  /\ AlgorithmOf(tsa.request[1]) = hexToBuffer(oids[name])
           /\ HashedMessageOf(tsa.request[1]) = SHA256(TextEncode(tsa.content))
              => name = "sha256"
           /\ Len(HashedMessageOf(tsa.request[1])) = DigestLength[name]

\* the keypair a revision's signature was made with (0 when there is none)
SignerOf(rev) ==
    IF \E k \in KeyIds :
            hexToBuffer(rev.signature.signature)
                = Ed25519Sign(k, hexToBuffer(rev.signature.contentHash))
    THEN CHOOSE k \in KeyIds :
            hexToBuffer(rev.signature.signature)
                = Ed25519Sign(k, hexToBuffer(rev.signature.contentHash))
    ELSE 0

\* the indices (from 0) of the revisions that keypair k did not sign
NotSignedBy(revisions, k) ==
    {i \in 0..(Len(revisions) - 1) : SignerOf(revisions[i + 1]) # k}

\* C24: verifyChain checks every signature under the publicKey argument
\* and does not consult the key a revision carries: when all revisions of
\* an intact chain but revision j were signed with the argument's keypair,
\* the result is invalid with the invalid-signature error of index j and
\* no other error, whatever public key revision j carries.
C24_SignaturesUnderArgumentKey ==
    \A k \in KeyIds :
        ( /\ ChainVerdict
          /\ verdict.publicKey = PublicKeyOf(k)
          /\ stored.faults = <<>> \/ stored.faults[1].kind = "publicKey"
          /\ Cardinality(NotSignedBy(stored.chain.revisions, k)) = 1 )
        => /\ ~verdict.threw
           /\ ~verdict.valid
           /\ \E j \in NotSignedBy(stored.chain.revisions, k) :
                verdict.errors = <<[index |-> j, kind |-> "signature"]>>

C24_Witness ==
    /\ ChainVerdict
    /\ verdict.publicKey = PublicKeyOf(1)
    /\ Len(stored.chain.revisions) = 3
    /\ NotSignedBy(stored.chain.revisions, 1) = {1}
    /\ stored.faults = <<[kind |-> "publicKey", index |-> 1]>>
    /\ stored.chain.revisions[2].signature.publicKey = bufferToHex(PublicKeyOf(1))
    /\ verdict.errors = <<[index |-> 1, kind |-> "signature"]>>

\* C25: the result of verifyChain depends on nothing but each revision's
\* content, contentHash, signature and previousHash and the publicKey
\* argument: a chain in which chain.content, c2paManifest or a revision's
\* timestamp, verifiedTimestamp, tsaToken or publicKey was changed gets
\* the result the chain got before the change.
C25_UnreadFieldsDoNotMatter ==
    ( /\ ChainVerdict
      /\ Len(stored.faults) = 1
      /\ stored.faults[1].kind \in UnreadKinds \cup {"chainContent", "c2paManifest"} )
    => LET before == verifyChain(stored.from, verdict.publicKey)
       IN  /\ stored.chain # stored.from
           /\ verdict.threw = before.threw
           /\ verdict.valid = before.valid
           /\ verdict.errors = before.errors

C25_Witness ==
    /\ ChainVerdict
    /\ stored.faults = <<[kind |-> "tsaToken", index |-> 2]>>
    /\ stored.chain.revisions[3].signature.tsaToken = <<>>
    /\ stored.from.revisions[3].signature.tsaToken # <<>>
    /\ verdict.valid

\* C26: cutting revisions off the end of a chain that verifyChain reports
\* valid gives a chain that is reported valid with no errors, the chain
\* without revisions included.
C26_TruncationUndetected ==
    ( /\ ChainVerdict
      /\ Len(stored.faults) = 1
      /\ stored.faults[1].kind = "truncate"
      /\ verifyChain(stored.from, verdict.publicKey).valid )
    => /\ Len(stored.chain.revisions) < Len(stored.from.revisions)
       /\ IsPrefix(stored.chain.revisions, stored.from.revisions)
       /\ stored.chain.content = stored.from.content
       /\ ~verdict.threw
       /\ verdict.valid
       /\ verdict.errors = <<>>

C26_Witness ==
    /\ ChainVerdict
    /\ stored.faults = <<[kind |-> "truncate", index |-> 0]>>
    /\ Len(stored.from.revisions) = 3
    /\ stored.chain.revisions = <<>>
    /\ verdict.valid

\* C30: in every chain createSignedContent or addRevision returns, the
\* chain's content is the content of the last revision, the content the
\* call was given, whatever chain the call was applied to.
C30_ContentIsLastRevision ==
    \A id \in CallIds :
        calls[id].pc = "done"
        => /\ calls[id].result.revisions # <<>>
           /\ calls[id].result.content = Last(calls[id].result.revisions).content
           /\ calls[id].result.content = calls[id].content

C30_Witness ==
    \E id \in CallIds :
        /\ calls[id].pc = "done"
        /\ calls[id].op = "add"
        /\ Len(calls[id].result.revisions) = 4
        /\ calls[id].input.content # Last(calls[id].input.revisions).content
        /\ calls[id].result.content # calls[id].input.content
        /\ calls[id].result.content = Last(calls[id].result.revisions).content

====
